---- MODULE Spec2Model ----
(***************************************************************************)
(* A state-machine model of zerotrust-ai: the access decision engine and   *)
(* continuous verifier (access/), the behavioural baseline and anomaly     *)
(* detector (behavioral/) and the policy engine (policy/).                 *)
(*                                                                         *)
(* Real-valued scores are fixed-point integers in units of 1/Scale; the    *)
(* model computes them in exact rational arithmetic where the program uses *)
(* binary floating point.  Wall-clock fields (timestamp, last_verified,    *)
(* created_at, updated_at) are not modelled.                               *)
(***************************************************************************)
EXTENDS Integers, Sequences, FiniteSets, TLC

VARIABLES
    decision_log,          \* AccessDecisionEngine.decision_log
    resource_sensitivity,  \* AccessDecisionEngine.resource_sensitivity
    states,                \* ContinuousVerifier.states, keyed by "entity:session"
    accessRet,             \* what the last access/verifier call returned
    ctxIn,                 \* the access context under evaluation (engine runs)
    levelSet,              \* history: resource -> the level last passed to set_resource_sensitivity
    evalHistory            \* history: the input of every evaluation, in call order

accessVars ==
    <<decision_log, resource_sensitivity, states, accessRet, ctxIn, levelSet, evalHistory>>

VARIABLES
    profiles,              \* BehavioralBaseline.profiles: entity id -> BaselineProfile
    decays,                \* number of decay_profiles calls: a bucket holds value * DecayDen^decays
    threshold,             \* AnomalyDetector.threshold
    baselineRet,           \* what the last baseline/detector call returned
    calls,                 \* number of observe and of observe_batch calls made
    observed               \* history: entity id -> number of observe calls made for it

baselineVars == <<profiles, decays, threshold, baselineRet, calls, observed>>

VARIABLES
    policies,              \* PolicyEngine.policies: the Policy objects in dict (insertion) order
    policyRet              \* what the last policy engine call returned

policyVars == <<policies, policyRet>>

VARIABLES
    heap,                  \* the BaselineProfile objects threads have allocated, by identity
    slot,                  \* profiles[entity_id] of the shared store: an object of heap, 0 when absent
    thread                 \* each request thread's position in observe and its locals

concVars == <<heap, slot, thread>>

VARIABLES
    threat_intel,          \* RiskEngine.threat_intel: the three sets of ThreatIntel
    risk_history,          \* RiskEngine.risk_history: entity_id -> the scores calculated
    riskIn,                \* the signals of the run's calculate calls
    riskRet                \* what the last risk engine call returned

riskVars == <<threat_intel, risk_history, riskIn, riskRet>>

VARIABLES
    edges,                 \* AccessGraph.edges: the AccessEdge log, in the order added
    node_types,            \* AccessGraph.node_types: node_id -> type
    node_privilege,        \* AccessGraph.node_features: node_id -> features[0]
    detector,              \* LateralMovementDetector: hop_threshold, baseline_embeddings
    search,                \* the locals of the running shortest_path, all_paths or detect
    lateralRet             \* what the last graph or detector call returned

lateralVars == <<edges, node_types, node_privilege, detector, search, lateralRet>>

VARIABLES
    segments,              \* SegmentManager.segments, in insertion order
    segRet                 \* what the last SegmentManager call returned

segVars == <<segments, segRet>>

VARIABLES
    sessions,              \* SessionAnalyzer.sessions: session_id -> Session
    entity_sessions,       \* SessionAnalyzer.entity_sessions: entity_id -> list of ids
    now,                   \* time.time(), in whole ticks
    sessRet                \* what the last SessionAnalyzer call returned

sessVars == <<sessions, entity_sessions, now, sessRet>>

vars == <<accessVars, baselineVars, policyVars, concVars, riskVars, lateralVars, segVars,
         sessVars>>

\* what the operations of one component leave alone
outsideAccess == <<baselineVars, policyVars, concVars, riskVars, lateralVars, segVars, sessVars>>
outsideBaseline == <<accessVars, policyVars, concVars, riskVars, lateralVars, segVars, sessVars>>
outsidePolicy == <<accessVars, baselineVars, concVars, riskVars, lateralVars, segVars, sessVars>>
outsideConc == <<accessVars, baselineVars, policyVars, riskVars, lateralVars, segVars, sessVars>>
outsideRisk == <<accessVars, baselineVars, policyVars, concVars, lateralVars, segVars, sessVars>>
outsideLateral == <<accessVars, baselineVars, policyVars, concVars, riskVars, segVars, sessVars>>
outsideSeg == <<accessVars, baselineVars, policyVars, concVars, riskVars, lateralVars, sessVars>>
outsideSess == <<accessVars, baselineVars, policyVars, concVars, riskVars, lateralVars, segVars>>

-----------------------------------------------------------------------------
(* Bounds and units *)

\* one unit is 0.0001: round(x, 4) keeps four decimals
Scale == 10000

\* most evaluations (entries of the decision log) in one run
MaxLog == 3

\* most evaluations of the one context of an engine run
MaxEvals == 2

\* most single observe calls in one run
MaxObserve == 2

\* most observe_batch calls in one run
MaxBatches == 1

\* most decay_profiles calls in one run
MaxDecays == 1

\* request threads that call observe at the same time
NumThreads == 2

\* most calculate calls of one risk engine run
MaxRiskCalls == 2

\* most edges of the graph of a shortest-path run
MaxGraphEdges == 4

\* most access events of a search run
MaxLateralEdges == 5

\* most access events of a credential-hopping run
MaxLogEdges == 5

\* most start_session and end_session calls of a session run
MaxSessionCalls == 4

-----------------------------------------------------------------------------
(* Numeric helpers *)

\* an empty dict
EmptyMap == [k \in {} |-> 0]

Max(a, b) == IF a >= b THEN a ELSE b

Min(a, b) == IF a <= b THEN a ELSE b

Abs(a) == IF a >= 0 THEN a ELSE -a

\* floor(n / d) for d > 0 and any integer n
FloorDiv(n, d) == IF n >= 0 THEN n \div d ELSE -((-n + d - 1) \div d)

\* Python round(): n/d to the nearest integer, an exact tie to the even one
RoundDiv(n, d) ==
    LET q == FloorDiv(n, d)
        r == n - q * d
    IN  IF 2 * r < d THEN q
        ELSE IF 2 * r > d THEN q + 1
        ELSE IF q % 2 = 0 THEN q ELSE q + 1

RECURSIVE SumSeq(_)
SumSeq(s) == IF s = <<>> THEN 0 ELSE Head(s) + SumSeq(Tail(s))

\* Python's seq[start:] for any integer start
PySliceFrom(s, start) ==
    LET n == Len(s)
        from == IF start < 0 THEN Max(n + start, 0) ELSE Min(start, n)
    IN  SubSeq(s, from + 1, n)

\* str < str in Python: lexicographic on code points
RECURSIVE StrLess(_, _)
StrLess(a, b) ==
    IF b = <<>> THEN FALSE
    ELSE IF a = <<>> THEN TRUE
    ELSE IF Head(a) # Head(b) THEN Head(a) < Head(b)
    ELSE StrLess(Tail(a), Tail(b))

-----------------------------------------------------------------------------
(* access/engine.py: Decision *)

ALLOW == "allow"
DENY == "deny"
CHALLENGE == "challenge"
RESTRICT == "restrict"

Decision == {ALLOW, DENY, CHALLENGE, RESTRICT}

\* the code points of Decision.value, as str comparison reads them
DecisionValue(d) ==
    CASE d = ALLOW     -> <<97, 108, 108, 111, 119>>
      [] d = DENY      -> <<100, 101, 110, 121>>
      [] d = CHALLENGE -> <<99, 104, 97, 108, 108, 101, 110, 103, 101>>
      [] d = RESTRICT  -> <<114, 101, 115, 116, 114, 105, 99, 116>>

-----------------------------------------------------------------------------
(* access/context.py *)

BoolCount(b) == IF b THEN 1 ELSE 0

\* DeviceHealth.health_score
health_score(device) ==
    LET checks == BoolCount(device.os_patched) + BoolCount(device.antivirus_active)
                  + BoolCount(device.disk_encrypted) + BoolCount(device.firewall_enabled)
    IN  \* round(checks/4 * 0.6 + compliance_score * 0.4, 4)
        RoundDiv(checks * 15000 + device.compliance_score * 4, 10)

AuthBase(method) ==
    CASE method = "certificate"    -> 9000
      [] method = "hardware_token" -> 8500
      [] method = "biometric"      -> 8000
      [] method = "totp"           -> 7000
      [] method = "password"       -> 4000
      [] method = "api_key"        -> 5000
      [] method = "session_cookie" -> 3000
      [] OTHER                     -> 3000

\* AccessContext.auth_strength
auth_strength(ctx) ==
    IF ctx.mfa_verified
    THEN Min(Scale, AuthBase(ctx.authentication_method) + 2000)
    ELSE AuthBase(ctx.authentication_method)

\* AccessContext.network_trust
network_trust(ctx) ==
    CASE ctx.network_zone = "internal" -> 7000
      [] ctx.network_zone = "vpn"      -> 6000
      [] ctx.network_zone = "dmz"      -> 4000
      [] ctx.network_zone = "external" -> 2000
      [] OTHER                         -> 1000

-----------------------------------------------------------------------------
(* access/engine.py: AccessDecisionEngine *)

deny_threshold == 3000
challenge_threshold == 5000
restrict_threshold == 7000

\* sensitivity of a resource with no entry in resource_sensitivity
DefaultSensitivity == 5000

\* _calculate_trust_score: weights in hundredths, the sum in units of 1e-6
_calculate_trust_score(ctx) ==
    LET trust == auth_strength(ctx) * 20
                 + health_score(ctx.device) * 20
                 + Max(0, Scale - ctx.behavior_score) * 25
                 + network_trust(ctx) * 15
                 + Max(0, Scale - ctx.risk_score) * 20
    IN  RoundDiv(Max(0, Min(Scale * 100, trust)), 100)

\* trust < base * (1 + sensitivity * tenths/10), compared exactly
BelowEffective(trust, base, sensitivity, tenths) ==
    trust * Scale * 10 < base * (Scale * 10 + sensitivity * tenths)

\* Decide with <= in place of < on the deny and restrict thresholds
DecideInclusive(trust, sensitivity) ==
    IF trust * Scale * 10 <= deny_threshold * (Scale * 10 + sensitivity * 5) THEN DENY
    ELSE IF BelowEffective(trust, challenge_threshold, sensitivity, 3) THEN CHALLENGE
    ELSE IF trust * Scale * 10 <= restrict_threshold * (Scale * 10 + sensitivity * 2)
         THEN RESTRICT
    ELSE ALLOW

\* Decide with the sensitivity lowering the thresholds: threshold * (1 - s * k)
DecideInverted(trust, sensitivity) ==
    IF BelowEffective(trust, deny_threshold, -sensitivity, 5) THEN DENY
    ELSE IF BelowEffective(trust, challenge_threshold, -sensitivity, 3) THEN CHALLENGE
    ELSE IF BelowEffective(trust, restrict_threshold, -sensitivity, 2) THEN RESTRICT
    ELSE ALLOW

\* the threshold cascade of evaluate
Decide(trust, sensitivity) ==
    IF BelowEffective(trust, deny_threshold, sensitivity, 5) THEN DENY
    ELSE IF BelowEffective(trust, challenge_threshold, sensitivity, 3) THEN CHALLENGE
    ELSE IF BelowEffective(trust, restrict_threshold, sensitivity, 2) THEN RESTRICT
    ELSE ALLOW

\* resource_sensitivity.get(resource, 0.5)
SensitivityOf(sens, resource) ==
    IF resource \in DOMAIN sens THEN sens[resource] ELSE DefaultSensitivity

Reasons(ctx, decision) ==
    CASE decision = DENY ->
            <<"below_deny_threshold">>
            \o (IF ctx.behavior_score > 7000 THEN <<"High behavioral anomaly score">> ELSE <<>>)
            \o (IF health_score(ctx.device) < 5000 THEN <<"Device health below minimum">> ELSE <<>>)
      [] decision = CHALLENGE -> <<"requires_step_up_auth">>
      [] decision = RESTRICT  -> <<"allows_restricted_access">>
      [] OTHER                -> <<"meets_threshold">>

RequiredActions(ctx, decision) ==
    CASE decision = CHALLENGE ->
            (IF ~ctx.mfa_verified THEN <<"mfa_verification">> ELSE <<>>)
            \o (IF health_score(ctx.device) < 7000 THEN <<"device_compliance_check">> ELSE <<>>)
      [] decision = RESTRICT ->
            IF ctx.action \in {"write", "delete", "admin"}
            THEN <<"reduce_to_read_only">> ELSE <<>>
      [] OTHER -> <<>>

\* the AccessDecision evaluate builds for ctx under the sensitivity map sens
MakeDecision(ctx, sens) ==
    LET trust_score == _calculate_trust_score(ctx)
        decision    == Decide(trust_score, SensitivityOf(sens, ctx.resource))
    IN  [decision         |-> decision,
         confidence       |-> Min(Scale, Abs(trust_score - 5000) * 2),
         risk_level       |-> Scale - trust_score,
         reasons          |-> Reasons(ctx, decision),
         required_actions |-> RequiredActions(ctx, decision),
         entity_id        |-> ctx.entity_id,
         resource         |-> ctx.resource]

\* the result put at the head of the log
PrependDecision(log, result) == <<result>> \o log

\* self.decision_log.append(result)
AppendDecision(log, result) == Append(log, result)

\* max(0.0, min(1.0, level))
ClampLevel(level) == Max(0, Min(Scale, level))

-----------------------------------------------------------------------------
(* policy/models.py *)

\* condition and context values carry their Python type
IntVal(n) == [t |-> "int", v |-> n]
StrVal(str) == [t |-> "str", v |-> str]
ListVal(items) == [t |-> "list", v |-> items]
TupleVal(items) == [t |-> "tuple", v |-> items]

\* the code points of the strings the policies and contexts use
Codes(str) ==
    CASE str = "internal" -> <<105, 110, 116, 101, 114, 110, 97, 108>>
      [] str = "external" -> <<101, 120, 116, 101, 114, 110, 97, 108>>
      [] str = "1"        -> <<49>>
      [] str = "10"       -> <<49, 48>>
      [] str = "9"        -> <<57>>
      [] OTHER            -> <<>>

\* a < v in Python for int and str operands (no context carries a list):
\* [ok |-> FALSE] stands for TypeError
PyLess(a, v) ==
    IF a.t = "int" /\ v.t = "int" THEN [ok |-> TRUE, val |-> a.v < v.v]
    ELSE IF a.t = "str" /\ v.t = "str"
    THEN [ok |-> TRUE, val |-> StrLess(Codes(a.v), Codes(v.v))]
    ELSE [ok |-> FALSE, val |-> FALSE]

\* sub occurs in str, both as code points
IsSubstring(sub, str) ==
    \E i \in 0 .. Len(str) - Len(sub) : SubSeq(str, i + 1, i + Len(sub)) = sub

\* a in v in Python
PyIn(a, v) ==
    IF v.t \in {"list", "tuple"}
    THEN [ok |-> TRUE, val |-> \E i \in 1 .. Len(v.v) : v.v[i] = a]
    ELSE IF v.t = "str" /\ a.t = "str"
    THEN [ok |-> TRUE, val |-> IsSubstring(Codes(a.v), Codes(v.v))]
    ELSE [ok |-> FALSE, val |-> FALSE]

\* except (TypeError, ValueError): return False
Caught(outcome, positive) ==
    IF outcome.ok THEN (outcome.val = positive) ELSE FALSE

\* PolicyCondition.evaluate(context)
ConditionEvaluate(cond, context) ==
    IF cond.field \notin DOMAIN context THEN FALSE
    ELSE LET actual == context[cond.field]
             value  == cond.value
         IN  CASE cond.operator = "eq"     -> actual = value
               [] cond.operator = "ne"     -> actual # value
               [] cond.operator = "gt"     -> Caught(PyLess(value, actual), TRUE)
               [] cond.operator = "lt"     -> Caught(PyLess(actual, value), TRUE)
               [] cond.operator = "gte"    -> Caught(PyLess(actual, value), FALSE)
               [] cond.operator = "lte"    -> Caught(PyLess(value, actual), FALSE)
               [] cond.operator = "in"     -> Caught(PyIn(actual, value), TRUE)
               [] cond.operator = "not_in" -> Caught(PyIn(actual, value), FALSE)
               [] OTHER                    -> FALSE

\* all(c.evaluate(context) for c in self.conditions)
AllConditions(rule, context) ==
    \A i \in 1 .. Len(rule.conditions) : ConditionEvaluate(rule.conditions[i], context)

\* a rule that never looks at its enabled flag
RuleEvaluateAnyway(rule, context) == AllConditions(rule, context)

\* PolicyRule.evaluate(context)
RuleEvaluate(rule, context) ==
    IF ~rule.enabled THEN FALSE ELSE AllConditions(rule, context)

-----------------------------------------------------------------------------
(* policy/engine.py *)

\* the matches of the rules of one policy, in rule order
RECURSIVE RuleMatches(_, _, _)
RuleMatches(policy, rules, context) ==
    IF rules = <<>> THEN <<>>
    ELSE (IF RuleEvaluate(Head(rules), context)
          THEN <<[priority |-> Head(rules).priority, rule |-> Head(rules),
                  policy_id |-> policy.policy_id]>>
          ELSE <<>>)
         \o RuleMatches(policy, Tail(rules), context)

\* the matches list evaluate gathers: enabled policies in store order
RECURSIVE GatherMatches(_, _)
GatherMatches(store, context) ==
    IF store = <<>> THEN <<>>
    ELSE (IF Head(store).enabled
          THEN RuleMatches(Head(store), Head(store).rules, context)
          ELSE <<>>)
         \o GatherMatches(Tail(store), context)

\* m put into the sorted list before the first entry of the same or a larger priority
RECURSIVE InsertBeforeEqual(_, _)
InsertBeforeEqual(sorted, m) ==
    IF sorted = <<>> THEN <<m>>
    ELSE IF m.priority <= Head(sorted).priority THEN <<m>> \o sorted
    ELSE <<Head(sorted)>> \o InsertBeforeEqual(Tail(sorted), m)

\* m put into the sorted list after every entry of the same or a smaller priority
RECURSIVE InsertAfterEqual(_, _)
InsertAfterEqual(sorted, m) ==
    IF sorted = <<>> THEN <<m>>
    ELSE IF m.priority < Head(sorted).priority THEN <<m>> \o sorted
    ELSE <<Head(sorted)>> \o InsertAfterEqual(Tail(sorted), m)

\* a sort by priority that reverses the order of equal priorities
RECURSIVE SortTiesReversed(_)
SortTiesReversed(matches) ==
    IF matches = <<>> THEN <<>>
    ELSE InsertBeforeEqual(SortTiesReversed(SubSeq(matches, 1, Len(matches) - 1)),
                           matches[Len(matches)])

\* matches.sort(key=lambda x: x[0]): list.sort is stable
RECURSIVE SortByPriority(_)
SortByPriority(matches) ==
    IF matches = <<>> THEN <<>>
    ELSE InsertAfterEqual(SortByPriority(SubSeq(matches, 1, Len(matches) - 1)),
                          matches[Len(matches)])

\* evaluate(context) on the store
PolicyEvaluate(store, context) ==
    LET matches == GatherMatches(store, context)
    IN  IF matches = <<>>
        THEN [decision |-> "deny", reason |-> "no_matching_policy", default_deny |-> TRUE]
        ELSE LET best == SortByPriority(matches)[1]
             IN  [decision      |-> best.rule.effect,
                  rule_id       |-> best.rule.rule_id,
                  policy_id     |-> best.policy_id,
                  priority      |-> best.priority,
                  description   |-> best.rule.description,
                  total_matches |-> Len(matches)]

\* the position of policy_id in the store, 0 when absent
PolicyIndex(store, policy_id) ==
    IF \E i \in 1 .. Len(store) : store[i].policy_id = policy_id
    THEN CHOOSE i \in 1 .. Len(store) : store[i].policy_id = policy_id
    ELSE 0

\* self.policies[policy.policy_id] = policy: a dict keeps the position of a key it holds
StorePut(store, policy) ==
    LET i == PolicyIndex(store, policy.policy_id)
    IN  IF i = 0 THEN Append(store, policy) ELSE [store EXCEPT ![i] = policy]

\* self.policies.pop(policy_id, None)
StorePop(store, policy_id) ==
    LET i == PolicyIndex(store, policy_id)
    IN  IF i = 0 THEN store ELSE SubSeq(store, 1, i - 1) \o SubSeq(store, i + 1, Len(store))

\* Policy.to_dict(): the plain dict of a policy, the effect as its str value
to_dict(policy) ==
    [policy_id   |-> policy.policy_id,
     name        |-> policy.name,
     description |-> policy.description,
     enabled     |-> policy.enabled,
     tags        |-> policy.tags,
     rules       |-> [j \in 1 .. Len(policy.rules) |->
                        [rule_id     |-> policy.rules[j].rule_id,
                         description |-> policy.rules[j].description,
                         effect      |-> policy.rules[j].effect,
                         priority    |-> policy.rules[j].priority,
                         enabled     |-> policy.rules[j].enabled,
                         conditions  |-> [k \in 1 .. Len(policy.rules[j].conditions) |->
                             [field    |-> policy.rules[j].conditions[k].field,
                              operator |-> policy.rules[j].conditions[k].operator,
                              value    |-> policy.rules[j].conditions[k].value]]]]]

\* Policy.from_dict(data), on a dict that holds every key
from_dict(data) ==
    [policy_id   |-> data.policy_id,
     name        |-> data.name,
     description |-> data.description,
     rules       |-> [j \in 1 .. Len(data.rules) |->
                        [rule_id     |-> data.rules[j].rule_id,
                         description |-> data.rules[j].description,
                         effect      |-> data.rules[j].effect,
                         conditions  |-> [k \in 1 .. Len(data.rules[j].conditions) |->
                             [field    |-> data.rules[j].conditions[k].field,
                              operator |-> data.rules[j].conditions[k].operator,
                              value    |-> data.rules[j].conditions[k].value]],
                         priority    |-> data.rules[j].priority,
                         enabled     |-> data.rules[j].enabled]],
     enabled     |-> data.enabled,
     tags        |-> data.tags]

(* yaml.dump writes each condition value as a node with a tag: a str scalar is
   quoted where its plain form would read as another type, so a str stays a str;
   a list is a sequence; a tuple is a sequence tagged !!python/tuple, which the
   full Dumper that yaml.dump uses can write.  yaml.safe_load builds the value
   of a node from its tag and has no constructor for !!python/tuple. *)

\* the tag yaml.dump gives a scalar
ScalarNode(value) == [tag |-> value.t, v |-> value.v]

\* the node yaml.dump writes for a condition value
YamlNode(value) ==
    IF value.t = "list"
    THEN [tag |-> "seq", v |-> [i \in 1 .. Len(value.v) |-> ScalarNode(value.v[i])]]
    ELSE IF value.t = "tuple"
    THEN [tag |-> "python/tuple",
          v |-> [i \in 1 .. Len(value.v) |-> ScalarNode(value.v[i])]]
    ELSE ScalarNode(value)

\* the tags yaml.safe_load has a constructor for
SafeTags == {"int", "str", "seq"}

\* the value yaml.safe_load builds from a node with a safe tag
YamlValue(node) ==
    IF node.tag = "seq"
    THEN [t |-> "list", v |-> [i \in 1 .. Len(node.v) |-> [t |-> node.v[i].tag, v |-> node.v[i].v]]]
    ELSE [t |-> node.tag, v |-> node.v]

\* a policy dict with every condition value mapped by f
MapValues(data, f(_)) ==
    [data EXCEPT !.rules =
        [j \in 1 .. Len(data.rules) |->
            [data.rules[j] EXCEPT !.conditions =
                [k \in 1 .. Len(data.rules[j].conditions) |->
                    [data.rules[j].conditions[k] EXCEPT !.value = f(@)]]]]]

\* export_yaml(): the document, one entry per policy in store order
export_yaml(store) ==
    [i \in 1 .. Len(store) |-> MapValues(to_dict(store[i]), YamlNode)]

\* the tags of the condition values of a document
DocumentTags(doc) ==
    UNION { UNION { {doc[i].rules[j].conditions[k].value.tag :
                        k \in 1 .. Len(doc[i].rules[j].conditions)} :
                    j \in 1 .. Len(doc[i].rules)} :
            i \in 1 .. Len(doc) }

\* yaml.safe_load raises ConstructorError on the document
LoadRaises(doc) == ~(DocumentTags(doc) \subseteq SafeTags)

\* the loop of load_yaml over the loaded document: from_dict, then add_policy
RECURSIVE AddLoaded(_, _)
AddLoaded(store, doc) ==
    IF doc = <<>> THEN store
    ELSE AddLoaded(StorePut(store, from_dict(MapValues(Head(doc), YamlValue))), Tail(doc))

\* load_yaml(yaml_str) on an engine with the given store: the store afterwards;
\* safe_load runs before any policy is added
load_yaml(store, doc) ==
    IF LoadRaises(doc) THEN store ELSE AddLoaded(store, doc)

-----------------------------------------------------------------------------
(* Inputs *)

NoReturn == [op |-> "none"]

HealthyDevice ==
    [os_patched |-> TRUE, antivirus_active |-> TRUE, disk_encrypted |-> TRUE,
     firewall_enabled |-> TRUE, compliance_score |-> 10000]

HalfPatchedDevice ==
    [os_patched |-> FALSE, antivirus_active |-> FALSE, disk_encrypted |-> TRUE,
     firewall_enabled |-> TRUE, compliance_score |-> 5000]

\* every check failed and a compliance score below the documented range
BrokenDevice ==
    [os_patched |-> FALSE, antivirus_active |-> FALSE, disk_encrypted |-> FALSE,
     firewall_enabled |-> FALSE, compliance_score |-> -2000]

\* the contexts of the engine runs: one entity and resource, every signal varied,
\* scores outside [0, 1] included
EngineContexts ==
    [entity_id : {"u"}, session_id : {""}, resource : {"vault"}, action : {"write"},
     authentication_method : {"certificate", "password"},
     mfa_verified : BOOLEAN,
     network_zone : {"internal", "external", "moon"},
     device : {HealthyDevice, HalfPatchedDevice, BrokenDevice},
     behavior_score : {-5000, 0, 4000, 9001},
     risk_score : {0, 4000, 12000}]

\* levels passed to set_resource_sensitivity, out-of-range ones included
Levels == {-5000, 0, 3000, 10000, 15000}

\* signal profiles that decide allow, restrict, challenge and deny at the
\* default sensitivity
SignalProfiles ==
    {[authentication_method |-> "certificate", mfa_verified |-> TRUE,
      network_zone |-> "internal", device |-> HealthyDevice,
      behavior_score |-> 1000, risk_score |-> 1000],
     [authentication_method |-> "certificate", mfa_verified |-> FALSE,
      network_zone |-> "internal", device |-> HealthyDevice,
      behavior_score |-> 4000, risk_score |-> 4000],
     [authentication_method |-> "password", mfa_verified |-> FALSE,
      network_zone |-> "external", device |-> HealthyDevice,
      behavior_score |-> 4000, risk_score |-> 4000],
     [authentication_method |-> "password", mfa_verified |-> FALSE,
      network_zone |-> "external", device |-> BrokenDevice,
      behavior_score |-> 9000, risk_score |-> 9500]}

\* (entity_id, session_id) pairs; the first two spell the same "entity:session"
SessionIds == {<<"a", "b:c">>, <<"a:b", "c">>, <<"a", "c">>}

SessionContexts ==
    {[entity_id |-> id[1], session_id |-> id[2], resource |-> "docs", action |-> "read",
      authentication_method |-> p.authentication_method,
      mfa_verified |-> p.mfa_verified, network_zone |-> p.network_zone,
      device |-> p.device, behavior_score |-> p.behavior_score,
      risk_score |-> p.risk_score] : id \in SessionIds, p \in SignalProfiles}

\* the requests of the decision-log runs
LogContexts == {c \in SessionContexts : c.entity_id = "a" /\ c.session_id = "c"}

\* baseline events; durations are in minutes
EvFull ==
    [hour |-> 9, day_of_week |-> 1, resource |-> "db-prod", action |-> "read",
     session_duration |-> 30, location |-> "us-east", source_ip |-> "10.0.1.15"]

EvOther ==
    [entity_type |-> "service", hour |-> 3, day_of_week |-> 6, resource |-> "api",
     action |-> "write", session_duration |-> 90, location |-> "cn-north",
     source_ip |-> "203.0.113.99", features |-> [bytes_sent |-> 100]]

\* an hour and nothing else
EvHourOnly == [hour |-> 23]

\* hour and day outside their ranges, an empty resource name
EvOutOfRange == [hour |-> 24, day_of_week |-> 7, resource |-> ""]

\* hour and day, no session
EvClock == [hour |-> 9, day_of_week |-> 1]

EvEmpty == EmptyMap

\* Events with a str where observe computes with a number.  A record cannot hold
\* a value of either type under one key, so the keys whose value is such a str
\* are listed under text and left out of the record itself.
EvTextHour == [text |-> {"hour"}, day_of_week |-> 1, resource |-> "db-prod"]

EvTextDow == [hour |-> 9, text |-> {"day_of_week"}, resource |-> "db-prod"]

EvTextDuration == [hour |-> 9, text |-> {"session_duration"}, location |-> "us-east"]

\* features = {"bytes_sent": "many"}
EvTextFeature == [hour |-> 9, text |-> {"features"}, location |-> "us-east"]

\* a key observe does not know
EvUnknownKey == [hour |-> 9, colour |-> 1]

MalformedEvents == {EvTextHour, EvTextDow, EvTextDuration, EvTextFeature}

\* a batch with a malformed event in the middle
MixedBatch == <<EvClock, EvTextDow, EvClock>>

ObserveEvents == {EvFull, EvOther, EvHourOnly, EvOutOfRange, EvEmpty}

BatchSize == 8

\* the event lists passed to observe_batch
Batches == {[i \in 1 .. BatchSize |-> EvFull], [i \in 1 .. BatchSize |-> EvClock]}

\* the events passed to analyze
AnalyzeEvents ==
    {EvFull, EvOther, EvOutOfRange, EvEmpty,
     [hour |-> -1, resource |-> "vault", session_duration |-> 150]}

\* the detector thresholds of the runs: the default 0.7 and two lower ones
Thresholds == {0, 5417, 7000}

Entities == {"alice", "bob"}

\* an entity that is never observed
Stranger == "mallory"


\* policy/models.py: PolicyCondition, PolicyRule and Policy as the constructors build them
Condition(field, operator, value) ==
    [field |-> field, operator |-> operator, value |-> value]

Rule(rule_id, effect, priority, enabled, conditions) ==
    [rule_id |-> rule_id, description |-> "", effect |-> effect,
     conditions |-> conditions, priority |-> priority, enabled |-> enabled]

MakePolicy(policy_id, enabled, rules) ==
    [policy_id |-> policy_id, name |-> policy_id, description |-> "",
     rules |-> rules, enabled |-> enabled, tags |-> <<>>]

XIsOne == Condition("x", "eq", IntVal(1))

\* the two rules of test_priority_ordering, one policy each
PolicyAllowLow  == MakePolicy("p1", TRUE, <<Rule("r1", "allow", 100, TRUE, <<XIsOne>>)>>)
PolicyDenyHigh  == MakePolicy("p2", TRUE, <<Rule("r2", "deny", 10, TRUE, <<XIsOne>>)>>)

\* a disabled policy under the id p1 whose rule has no conditions
PolicyOff == MakePolicy("p1", FALSE, <<Rule("r0", "allow", 1, TRUE, <<>>)>>)

\* a second p2: the rule ties with r5 at priority 10
PolicyDenyStrings ==
    MakePolicy("p2", TRUE,
        <<Rule("r6", "deny", 10, TRUE, <<Condition("x", "gte", StrVal("1"))>>)>>)

\* rules on two fields, a disabled rule, and a rule of priority 10 behind them
PolicyZones ==
    MakePolicy("p3", TRUE,
        <<Rule("r3", "challenge", 50, TRUE,
               <<Condition("zone", "in", ListVal(<<StrVal("internal")>>)),
                 Condition("risk", "gt", IntVal(5))>>),
          Rule("r4", "allow", 5, FALSE, <<>>),
          Rule("r5", "allow", 10, TRUE, <<Condition("x", "ne", IntVal(9))>>)>>)

\* a policy built in code with a tuple as the value of an in condition
PolicyTuple ==
    MakePolicy("p3", TRUE,
        <<Rule("r7", "allow", 20, TRUE,
               <<Condition("zone", "in", TupleVal(<<StrVal("internal"), StrVal("9")>>))>>)>>)

PolicyPool ==
    {PolicyAllowLow, PolicyDenyHigh, PolicyOff, PolicyDenyStrings, PolicyZones, PolicyTuple}

PolicyIds == {"p1", "p2", "p3", "p9"}

\* the request contexts: fields present, absent, and of either type
PolicyContexts ==
    { [x |-> IntVal(1)],
      [x |-> StrVal("10")],
      [x |-> IntVal(9)],
      [zone |-> StrVal("internal")],
      [zone |-> StrVal("internal"), risk |-> IntVal(9)],
      [x |-> IntVal(1), zone |-> StrVal("external"), risk |-> IntVal(9)],
      EmptyMap }

-----------------------------------------------------------------------------
(* access/engine.py: operations *)

\* set_resource_sensitivity(resource, level)
SetResourceSensitivity(resource, level) ==
    /\ resource_sensitivity' =
          [r \in DOMAIN resource_sensitivity \cup {resource} |->
              IF r = resource THEN ClampLevel(level) ELSE resource_sensitivity[r]]
    /\ levelSet' = [r \in DOMAIN levelSet \cup {resource} |->
                        IF r = resource THEN level ELSE levelSet[r]]
    /\ accessRet' = [op |-> "set_resource_sensitivity"]
    /\ UNCHANGED <<decision_log, states, ctxIn, evalHistory, outsideAccess>>

\* what the history keeps of one evaluation
EvalRecord(ctx) ==
    [ctx   |-> ctx,
     sens  |-> resource_sensitivity,
     set   |-> ctx.resource \in DOMAIN levelSet,
     level |-> IF ctx.resource \in DOMAIN levelSet THEN levelSet[ctx.resource] ELSE 0]

\* evaluate(context)
Evaluate(ctx) ==
    /\ Len(decision_log) < MaxLog
    /\ LET result == MakeDecision(ctx, resource_sensitivity)
       IN  /\ decision_log' = AppendDecision(decision_log, result)
           /\ accessRet' = [op |-> "evaluate", result |-> result]
    /\ evalHistory' = Append(evalHistory, EvalRecord(ctx))
    /\ UNCHANGED <<resource_sensitivity, states, ctxIn, levelSet, outsideAccess>>

\* recent_decisions(n)
RecentDecisions(n) ==
    /\ accessRet' = [op |-> "recent_decisions", n |-> n,
                     decisions |-> PySliceFrom(decision_log, -n)]
    /\ UNCHANGED <<decision_log, resource_sensitivity, states, ctxIn, levelSet, evalHistory,
                   outsideAccess>>
-----------------------------------------------------------------------------
(* access/verification.py: ContinuousVerifier *)

\* f"{entity_id}:{session_id}"
SessionKey(entity_id, session_id) == entity_id \o ":" \o session_id

\* decision.decision.value < state.current_decision.value, on the str values
ValueLess(new, current) == StrLess(DecisionValue(new), DecisionValue(current))

\* the trend read off the mean of the recent points against the earliest of them
TrendOfMean(history) ==
    IF Len(history) < 2 THEN "stable"
    ELSE LET recent == PySliceFrom(history, -3)
             excess == SumSeq(recent) - Len(recent) * recent[1]
         IN  IF excess < -1000 * Len(recent) THEN "degrading"
             ELSE IF excess > 1000 * Len(recent) THEN "improving"
             ELSE "stable"

\* _trust_trend(state)
_trust_trend(history) ==
    IF Len(history) < 2 THEN "stable"
    ELSE LET recent == PySliceFrom(history, -3)
             delta  == recent[Len(recent)] - recent[1]
         IN  IF Len(recent) >= 2 /\ delta < -1000 THEN "degrading"
             ELSE IF Len(recent) >= 2 /\ delta > 1000 THEN "improving"
             ELSE "stable"

\* self.states[key] = state
PutState(key, state) ==
    [k \in DOMAIN states \cup {key} |-> IF k = key THEN state ELSE states[k]]

\* initialize_session(context)
InitializeSession(ctx) ==
    /\ Len(decision_log) < MaxLog
    /\ LET decision == MakeDecision(ctx, resource_sensitivity)
           state == [entity_id          |-> ctx.entity_id,
                     session_id         |-> ctx.session_id,
                     initial_decision   |-> decision.decision,
                     current_decision   |-> decision.decision,
                     verification_count |-> 0,
                     escalation_count   |-> 0,
                     trust_history      |-> <<Scale - decision.risk_level>>]
       IN  /\ decision_log' = AppendDecision(decision_log, decision)
           /\ states' = PutState(SessionKey(ctx.entity_id, ctx.session_id), state)
           /\ accessRet' = [op               |-> "initialize_session",
                            session_id       |-> ctx.session_id,
                            initial_decision |-> decision.decision,
                            risk_level       |-> decision.risk_level]
    /\ evalHistory' = Append(evalHistory, EvalRecord(ctx))
    /\ UNCHANGED <<resource_sensitivity, ctxIn, levelSet, outsideAccess>>

\* reverify(context) without "state.verification_count += 1"
ReverifyUncounted(ctx) ==
    LET key == SessionKey(ctx.entity_id, ctx.session_id) IN
    IF key \notin DOMAIN states
    THEN InitializeSession(ctx)
    ELSE
    /\ Len(decision_log) < MaxLog
    /\ LET state     == states[key]
           decision  == MakeDecision(ctx, resource_sensitivity)
           history   == Append(state.trust_history, Scale - decision.risk_level)
           escalated == ValueLess(decision.decision, state.current_decision)
           after == [state EXCEPT
                        !.trust_history = history,
                        !.escalation_count = IF escalated THEN @ + 1 ELSE @,
                        !.current_decision = decision.decision]
       IN  /\ decision_log' = AppendDecision(decision_log, decision)
           /\ states' = PutState(key, after)
           /\ accessRet' = [op                 |-> "reverify",
                            session_id         |-> ctx.session_id,
                            previous_decision  |-> state.current_decision,
                            current_decision   |-> decision.decision,
                            risk_level         |-> decision.risk_level,
                            trust_trend        |-> _trust_trend(history),
                            escalated          |-> escalated,
                            verification_count |-> after.verification_count]
    /\ evalHistory' = Append(evalHistory, EvalRecord(ctx))
    /\ UNCHANGED <<resource_sensitivity, ctxIn, levelSet, outsideAccess>>

\* reverify(context)
Reverify(ctx) ==
    LET key == SessionKey(ctx.entity_id, ctx.session_id) IN
    IF key \notin DOMAIN states
    THEN InitializeSession(ctx)
    ELSE
    /\ Len(decision_log) < MaxLog
    /\ LET state     == states[key]
           decision  == MakeDecision(ctx, resource_sensitivity)
           history   == Append(state.trust_history, Scale - decision.risk_level)
           escalated == ValueLess(decision.decision, state.current_decision)
           after == [state EXCEPT
                        !.verification_count = @ + 1,
                        !.trust_history = history,
                        !.escalation_count = IF escalated THEN @ + 1 ELSE @,
                        !.current_decision = decision.decision]
       IN  /\ decision_log' = AppendDecision(decision_log, decision)
           /\ states' = PutState(key, after)
           /\ accessRet' = [op                 |-> "reverify",
                            session_id         |-> ctx.session_id,
                            previous_decision  |-> state.current_decision,
                            current_decision   |-> decision.decision,
                            risk_level         |-> decision.risk_level,
                            trust_trend        |-> _trust_trend(history),
                            escalated          |-> escalated,
                            verification_count |-> after.verification_count]
    /\ evalHistory' = Append(evalHistory, EvalRecord(ctx))
    /\ UNCHANGED <<resource_sensitivity, ctxIn, levelSet, outsideAccess>>

\* get_state(entity_id, session_id) on the states dict st
get_state(st, entity_id, session_id) ==
    LET key == SessionKey(entity_id, session_id)
    IN  IF key \notin DOMAIN st THEN [found |-> FALSE]
        ELSE [found              |-> TRUE,
              entity_id          |-> st[key].entity_id,
              session_id         |-> st[key].session_id,
              current_decision   |-> st[key].current_decision,
              verification_count |-> st[key].verification_count,
              escalation_count   |-> st[key].escalation_count,
              trust_trend        |-> _trust_trend(st[key].trust_history)]

-----------------------------------------------------------------------------
(* behavioral/baseline.py *)

\* BehavioralBaseline(decay_factor = DecayNum / DecayDen).  The argument is
\* configurable (default 0.995); the runs use 3/4 so that decayed buckets stay
\* exact small integers: a bucket variable holds its value times DecayDen^decays.
DecayNum == 3
DecayDen == 4

RECURSIVE Power(_, _)
Power(b, n) == IF n = 0 THEN 1 ELSE b * Power(b, n - 1)

\* dict.get(key, [])
MapSeq(m, k) == IF k \in DOMAIN m THEN m[k] ELSE <<>>

\* dict.get(key, 0)
MapGet(m, k) == IF k \in DOMAIN m THEN m[k] ELSE 0

\* m[key] = m.get(key, 0) + 1
MapInc(m, k) == [x \in DOMAIN m \cup {k} |-> IF x = k THEN MapGet(m, k) + 1 ELSE m[x]]

RECURSIVE SumOver(_, _)
SumOver(f, S) ==
    IF S = {} THEN 0
    ELSE LET x == CHOOSE y \in S : TRUE IN f[x] + SumOver(f, S \ {x})

\* sum(m.values()) and ndarray.sum()
SumMap(m) == SumOver(m, DOMAIN m)

RECURSIVE MaxOver(_, _)
MaxOver(f, S) ==
    IF S = {} THEN 0
    ELSE LET x == CHOOSE y \in S : TRUE IN Max(f[x], MaxOver(f, S \ {x}))

\* max(m.values()) and ndarray.max(), of non-negative entries
MaxMap(m) == MaxOver(m, DOMAIN m)

Has(event, key) == key \in DOMAIN event

\* `if value:` on an optional str field
Truthy(event, key) == Has(event, key) /\ event[key] # ""

\* BaselineProfile(entity_id, entity_type)
NewProfile(entity_id, entity_type) ==
    [entity_id            |-> entity_id,
     entity_type          |-> entity_type,
     observation_count    |-> 0,
     hour_distribution    |-> [h \in 0 .. 23 |-> 0],
     dow_distribution     |-> [d \in 0 .. 6 |-> 0],
     resource_frequencies |-> EmptyMap,
     action_frequencies   |-> EmptyMap,
     \* Welford state (mean, m2, count) held as (sum, sum of squares, count):
     \* mean = duration_sum / session_count, m2 = duration_squares - sum^2 / count
     session_count        |-> 0,
     duration_sum         |-> 0,
     duration_squares     |-> 0,
     locations_seen       |-> EmptyMap,
     source_ips           |-> EmptyMap,
     \* feature_stats: name -> Welford state, held the same way
     feature_stats        |-> EmptyMap]

\* a store that forgets the profile it holds: a new profile on every call
FreshProfile(store, entity_id, entity_type) ==
    [e \in DOMAIN store \cup {entity_id} |->
        IF e = entity_id THEN NewProfile(entity_id, entity_type) ELSE store[e]]

\* get_or_create_profile: the store after the call
get_or_create_profile(store, entity_id, entity_type) ==
    IF entity_id \notin DOMAIN store
    THEN [e \in DOMAIN store \cup {entity_id} |->
             IF e = entity_id THEN NewProfile(entity_id, entity_type) ELSE store[e]]
    ELSE store

\* one Welford update of the state w with the value x
WelfordUpdate(w, x) ==
    [count |-> w.count + 1, sum |-> w.sum + x, squares |-> w.squares + x * x]

RECURSIVE UpdateFeatures(_, _, _)
UpdateFeatures(stats, features, names) ==
    IF names = {} THEN stats
    ELSE LET name == CHOOSE n \in names : TRUE
             prior == IF name \in DOMAIN stats THEN stats[name]
                      ELSE [count |-> 0, sum |-> 0, squares |-> 0]
             next  == [n \in DOMAIN stats \cup {name} |->
                          IF n = name THEN WelfordUpdate(prior, features[name])
                          ELSE stats[n]]
         IN  UpdateFeatures(next, features, names \ {name})

\* the body of observe after get_or_create_profile: the profile updated with the
\* event; one is the bucket value of one observation, DecayDen^decays
ObserveProfile(profile, event, one) ==
    LET hourOk == Has(event, "hour") /\ 0 <= event.hour /\ event.hour < 24
        dowOk  == Has(event, "day_of_week") /\ 0 <= event.day_of_week
                  /\ event.day_of_week < 7
        hasDur == Has(event, "session_duration")
    IN  [profile EXCEPT
            !.observation_count = @ + 1,
            !.hour_distribution =
                IF hourOk THEN [@ EXCEPT ![event.hour] = @ + one] ELSE @,
            !.dow_distribution =
                IF dowOk THEN [@ EXCEPT ![event.day_of_week] = @ + one] ELSE @,
            !.resource_frequencies =
                IF Truthy(event, "resource") THEN MapInc(@, event.resource) ELSE @,
            !.action_frequencies =
                IF Truthy(event, "action") THEN MapInc(@, event.action) ELSE @,
            !.session_count = IF hasDur THEN @ + 1 ELSE @,
            !.duration_sum = IF hasDur THEN @ + event.session_duration ELSE @,
            !.duration_squares =
                IF hasDur THEN @ + event.session_duration * event.session_duration ELSE @,
            !.locations_seen =
                IF Truthy(event, "location") THEN MapInc(@, event.location) ELSE @,
            !.source_ips =
                IF Truthy(event, "source_ip") THEN MapInc(@, event.source_ip) ELSE @,
            !.feature_stats =
                IF Has(event, "features")
                THEN UpdateFeatures(@, event.features, DOMAIN event.features) ELSE @]

\* the keys of the event whose value is a str in place of a number
TextKeys(event) == IF "text" \in DOMAIN event THEN event.text ELSE {}

\* the fields of an event in the order observe reads them
FieldOrder ==
    <<"hour", "day_of_week", "resource", "action", "session_duration", "location",
      "source_ip", "features">>

FieldPos(key) == CHOOSE i \in 1 .. Len(FieldOrder) : FieldOrder[i] = key

\* observe raises TypeError: 0 <= hour, 0 <= dow, duration - mean and feat_val - mean
\* are not defined on a str
ObserveRaises(event) == TextKeys(event) # {}

\* the position in FieldOrder of the field observe raises at
RaisePos(event) ==
    CHOOSE i \in 1 .. Len(FieldOrder) :
        /\ FieldOrder[i] \in TextKeys(event)
        /\ \A j \in 1 .. i - 1 : FieldOrder[j] \notin TextKeys(event)

\* the part of the event observe has read before it reaches position pos
ReadBefore(event, pos) ==
    [k \in {f \in DOMAIN event \ {"text"} :
               (\A i \in 1 .. Len(FieldOrder) : FieldOrder[i] # f) \/ FieldPos(f) < pos}
        |-> event[k]]

\* the one feature of a features dict with a str value
TextFeature == "bytes_sent"

\* the profile a raising observe leaves behind: the fields before the failing one
\* are applied, session_count is incremented before duration - mean raises, and
\* the feature's (0.0, 0.0, 0) entry is stored before feat_val - mean raises
ObservePartial(profile, event, one) ==
    LET pos  == RaisePos(event)
        done == ObserveProfile(profile, ReadBefore(event, pos), one)
    IN  IF FieldOrder[pos] = "session_duration"
        THEN [done EXCEPT !.session_count = @ + 1]
        ELSE IF FieldOrder[pos] = "features" /\ TextFeature \notin DOMAIN done.feature_stats
        THEN [done EXCEPT !.feature_stats =
                 [n \in DOMAIN @ \cup {TextFeature} |->
                     IF n = TextFeature THEN [count |-> 0, sum |-> 0, squares |-> 0]
                     ELSE @[n]]]
        ELSE done

\* what observe hands back: the profile, or the exception it raises
ObserveReturn(entity_id, event) ==
    [op |-> "observe", entity_id |-> entity_id,
     raised |-> IF ObserveRaises(event) THEN "TypeError" ELSE "none"]

\* event.get("entity_type", "user")
EntityType(event) == IF Has(event, "entity_type") THEN event.entity_type ELSE "user"

\* the store after observe(entity_id, event)
ObserveStore(store, entity_id, event, one) ==
    LET created == get_or_create_profile(store, entity_id, EntityType(event))
    IN  [created EXCEPT ![entity_id] =
            IF ObserveRaises(event) THEN ObservePartial(@, event, one)
            ELSE ObserveProfile(@, event, one)]

\* the store after observe_batch(entity_id, events)
RECURSIVE ObserveBatchStore(_, _, _, _)
ObserveBatchStore(store, entity_id, events, one) ==
    IF events = <<>> THEN store
    ELSE IF ObserveRaises(Head(events))
    THEN ObserveStore(store, entity_id, Head(events), one)
    ELSE ObserveBatchStore(ObserveStore(store, entity_id, Head(events), one),
                           entity_id, Tail(events), one)

\* the observe calls observe_batch makes: the loop ends at the first that raises
RECURSIVE BatchCalls(_)
BatchCalls(events) ==
    IF events = <<>> THEN 0
    ELSE IF ObserveRaises(Head(events)) THEN 1
    ELSE 1 + BatchCalls(Tail(events))

\* the numerators grow by 2 - decay_factor instead of shrinking by decay_factor
GrowBucket(v) == v * (2 * DecayDen - DecayNum)

\* bucket *= decay_factor, on the numerator (the denominator is DecayDen^decays)
DecayBucket(v) == v * DecayNum

\* decay_profiles(), on one profile
DecayProfile(profile) ==
    [profile EXCEPT
        !.hour_distribution = [h \in 0 .. 23 |-> DecayBucket(@[h])],
        !.dow_distribution = [d \in 0 .. 6 |-> DecayBucket(@[d])]]

-----------------------------------------------------------------------------
(* behavioral/anomaly.py *)

\* the weights of the detector, in hundredths
time_weight == 20
resource_weight == 25
location_weight == 25
ip_weight == 15
duration_weight == 15

\* profiles with fewer observations get the neutral result
MinObservations == 10

\* profiles with fewer timed sessions get no duration score
MinSessions == 5

Weight(key) ==
    CASE key = "time"     -> time_weight
      [] key = "resource" -> resource_weight
      [] key = "location" -> location_weight
      [] key = "ip"       -> ip_weight
      [] key = "duration" -> duration_weight
      [] OTHER            -> 10

\* probs[hour] of a 24-element array: negative indices count from the end
HourIndex(hour) == IF hour < 0 THEN hour + 24 ELSE hour

HourIndexValid(hour) == HourIndex(hour) \in 0 .. 23

\* _time_anomaly, for a valid index
_time_anomaly(profile, hour) ==
    LET dist  == profile.hour_distribution
        total == SumMap(dist)
        h     == HourIndex(hour)
        \* hour_probabilities: dist / total, or uniform when total is zero
        peak  == IF total = 0 THEN 1 ELSE MaxMap(dist)
        mine  == IF total = 0 THEN 1 ELSE dist[h]
        \* relative = 1 - prob / max_prob, as the fraction num / peak
        num   == peak - mine
    IN  IF dist[h] = 0
        THEN RoundDiv(Min(num * 10 + 3 * peak, 10 * peak) * Scale, 10 * peak)
        ELSE RoundDiv(num * Scale, peak)

\* _resource_anomaly without the neutral score of a profile that has no resource
ResourceAnomalyAlwaysNovel(profile, resource) ==
    LET freqs == profile.resource_frequencies
        count == MapGet(freqs, resource)
        top   == MaxMap(freqs)
    IN  IF count = 0
        THEN Max(6000, Scale - Cardinality(DOMAIN freqs) * 100)
        ELSE RoundDiv((top - count) * Scale, 2 * top)

\* _resource_anomaly
_resource_anomaly(profile, resource) ==
    LET freqs == profile.resource_frequencies
        count == MapGet(freqs, resource)
        total == SumMap(freqs)
        top   == MaxMap(freqs)
    IN  IF total = 0 THEN 5000
        ELSE IF count = 0
        THEN Max(6000, Scale - Cardinality(DOMAIN freqs) * 100)
        ELSE \* round((1 - freq / max_freq) * 0.5, 4)
             RoundDiv((top - count) * Scale, 2 * top)

\* max(0.0, 1.0 - freq * factor) with freq = count / total, rounded
RarityScore(count, total, factor) ==
    IF total > 0
    THEN Max(0, RoundDiv((total - factor * count) * Scale, total))
    ELSE Scale

\* _location_anomaly
_location_anomaly(profile, location) ==
    LET count == MapGet(profile.locations_seen, location)
    IN  IF count = 0 THEN 9000
        ELSE RarityScore(count, SumMap(profile.locations_seen), 5)

\* _ip_anomaly
_ip_anomaly(profile, ip) ==
    LET count == MapGet(profile.source_ips, ip)
    IN  IF count = 0 THEN 8000
        ELSE RarityScore(count, SumMap(profile.source_ips), 3)

\* z_score >= k, for z = |duration - mean| / std with std = 1.0 when it is zero
ZAtLeast(profile, duration, k) ==
    LET n == profile.session_count
        S == profile.duration_sum
        \* n * (n - 1) * variance
        spread == n * profile.duration_squares - S * S
        dev == n * duration - S
    IN  IF spread = 0
        THEN dev * dev >= k * k * n * n
        ELSE dev * dev * (n - 1) >= k * k * n * spread

\* 1 / (1 + exp(-1.5 (z - 2))) rounded to 4 decimals, tabulated at the whole
\* z-scores 0 .. 4: the logistic function is read at floor(min(z, 4))
SigmoidTable(profile, duration) ==
    IF ZAtLeast(profile, duration, 4) THEN 9526
    ELSE IF ZAtLeast(profile, duration, 3) THEN 8176
    ELSE IF ZAtLeast(profile, duration, 2) THEN 5000
    ELSE IF ZAtLeast(profile, duration, 1) THEN 1824
    ELSE 474

\* _duration_anomaly
_duration_anomaly(profile, duration) ==
    IF profile.session_count < MinSessions THEN 0
    ELSE SigmoidTable(profile, duration)

\* the component scores analyze collects: key -> score
ComponentScores(profile, event) ==
    LET keys == (IF Has(event, "hour") THEN {"time"} ELSE {})
                \cup (IF Truthy(event, "resource") THEN {"resource"} ELSE {})
                \cup (IF Truthy(event, "location") THEN {"location"} ELSE {})
                \cup (IF Truthy(event, "source_ip") THEN {"ip"} ELSE {})
                \cup (IF Has(event, "session_duration") THEN {"duration"} ELSE {})
    IN  [key \in keys |->
            CASE key = "time"     -> _time_anomaly(profile, event.hour)
              [] key = "resource" -> _resource_anomaly(profile, event.resource)
              [] key = "location" -> _location_anomaly(profile, event.location)
              [] key = "ip"       -> _ip_anomaly(profile, event.source_ip)
              [] key = "duration" -> _duration_anomaly(profile, event.session_duration)]

\* the details analyze collects; only the resource entry is modelled, and of it
\* the resource name and seen_count
ComponentDetails(profile, event) ==
    IF Truthy(event, "resource")
    THEN [resource |-> [resource   |-> event.resource,
                        seen_count |-> MapGet(profile.resource_frequencies, event.resource)]]
    ELSE EmptyMap

\* the neutral result of analyze
InsufficientBaseline(entity_id) ==
    [op |-> "analyze", raised |-> "none", entity_id |-> entity_id,
     anomaly_score |-> 5000, is_anomalous |-> FALSE,
     reason |-> "insufficient_baseline", component_scores |-> EmptyMap,
     details |-> EmptyMap]

\* the observation limit read one too low
IsUnderBaselinedOffByOne(store, entity_id) ==
    entity_id \notin DOMAIN store
    \/ store[entity_id].observation_count < MinObservations - 1

\* profile is None or profile.observation_count < 10
IsUnderBaselined(store, entity_id) ==
    entity_id \notin DOMAIN store \/ store[entity_id].observation_count < MinObservations

\* analyze(entity_id, event) on the store, with the detector's threshold
Analyze(store, entity_id, event, limit) ==
    IF IsUnderBaselined(store, entity_id)
    THEN InsufficientBaseline(entity_id)
    ELSE IF Has(event, "hour") /\ ~HourIndexValid(event.hour)
    THEN \* probs[hour] is out of bounds
         [op |-> "analyze", raised |-> "IndexError", entity_id |-> entity_id]
    ELSE LET scores       == ComponentScores(store[entity_id], event)
             keys         == DOMAIN scores
             weighted_sum == SumOver([k \in keys |-> scores[k] * Weight(k)], keys)
             weight_sum   == SumOver([k \in keys |-> Weight(k)], keys)
         IN  [op |-> "analyze", raised |-> "none", entity_id |-> entity_id,
              anomaly_score |-> IF keys = {} THEN 0 ELSE RoundDiv(weighted_sum, weight_sum),
              is_anomalous  |-> IF keys = {} THEN 0 >= limit
                                ELSE weighted_sum >= limit * weight_sum,
              reason |-> "none", component_scores |-> scores,
              details |-> ComponentDetails(store[entity_id], event)]

-----------------------------------------------------------------------------
(* behavioral: operations *)

\* the bucket value of one observation
One == Power(DecayDen, decays)

\* observe(entity_id, event)
Observe(entity_id, event) ==
    /\ calls.observe < MaxObserve
    /\ profiles' = ObserveStore(profiles, entity_id, event, One)
    /\ calls' = [calls EXCEPT !.observe = @ + 1]
    /\ observed' = [observed EXCEPT ![entity_id] = @ + 1]
    /\ baselineRet' = ObserveReturn(entity_id, event)
    /\ UNCHANGED <<decays, threshold, outsideBaseline>>

\* observe_batch(entity_id, events)
ObserveBatch(entity_id, events) ==
    /\ calls.observe_batch < MaxBatches
    /\ profiles' = ObserveBatchStore(profiles, entity_id, events, One)
    /\ calls' = [calls EXCEPT !.observe_batch = @ + 1]
    /\ observed' = [observed EXCEPT ![entity_id] = @ + BatchCalls(events)]
    /\ baselineRet' = [op |-> "observe_batch", entity_id |-> entity_id,
                       raised |-> IF BatchCalls(events) < Len(events) THEN "TypeError"
                                  ELSE "none"]
    /\ UNCHANGED <<decays, threshold, outsideBaseline>>

\* decay_profiles()
DecayProfiles ==
    /\ decays < MaxDecays
    /\ profiles' = [e \in DOMAIN profiles |-> DecayProfile(profiles[e])]
    /\ decays' = decays + 1
    /\ baselineRet' = [op |-> "decay_profiles"]
    /\ UNCHANGED <<threshold, calls, observed, outsideBaseline>>

\* analyze(entity_id, event)
AnalyzeEvent(entity_id, event) ==
    /\ baselineRet' = Analyze(profiles, entity_id, event, threshold)
    /\ UNCHANGED <<profiles, decays, threshold, calls, observed, outsideBaseline>>

-----------------------------------------------------------------------------
(* behavioral/baseline.py: observe called from concurrent request threads *)

(* The store takes no lock, and the API serves each request on its own thread.
   A thread can be preempted between any two of the steps below: the membership
   test, the dict store of a new profile, the dict read, and the read and the
   write of each `+= 1`.  The profile objects are held by identity, so that a
   thread can keep a reference to a profile the dict no longer holds.  Every
   call is observe("alice", event); an event carries a resource or not. *)

Threads == 1 .. NumThreads

IdleThread == [pc |-> "idle", ref |-> 0, tmp |-> 0, resource |-> FALSE]

\* BaselineProfile(entity_id, entity_type), cut to the two aggregates the calls write
NewObject == [observation_count |-> 0, resource_count |-> 0]

\* a request thread enters observe(entity_id, event)
CallObserve(t, withResource) ==
    /\ thread[t].pc = "idle"
    /\ thread' = [thread EXCEPT ![t] = [@ EXCEPT !.pc = "check", !.resource = withResource]]
    /\ UNCHANGED <<heap, slot, outsideConc>>

\* if entity_id not in self.profiles
StepCheck(t) ==
    /\ thread[t].pc = "check"
    /\ thread' = [thread EXCEPT ![t].pc = IF slot = 0 THEN "create" ELSE "fetch"]
    /\ UNCHANGED <<heap, slot, outsideConc>>

\* self.profiles[entity_id] = BaselineProfile(...)
StepCreate(t) ==
    /\ thread[t].pc = "create"
    /\ heap' = Append(heap, NewObject)
    /\ slot' = Len(heap) + 1
    /\ thread' = [thread EXCEPT ![t].pc = "fetch"]
    /\ UNCHANGED outsideConc

\* return self.profiles[entity_id]
StepFetch(t) ==
    /\ thread[t].pc = "fetch"
    /\ thread' = [thread EXCEPT ![t] = [@ EXCEPT !.pc = "load_count", !.ref = slot]]
    /\ UNCHANGED <<heap, slot, outsideConc>>

\* profile.observation_count += 1: the read
StepLoadCount(t) ==
    /\ thread[t].pc = "load_count"
    /\ thread' = [thread EXCEPT ![t] =
                     [@ EXCEPT !.pc = "store_count",
                               !.tmp = heap[thread[t].ref].observation_count]]
    /\ UNCHANGED <<heap, slot, outsideConc>>

\* profile.observation_count += 1: the write
StepStoreCount(t) ==
    /\ thread[t].pc = "store_count"
    /\ heap' = [heap EXCEPT ![thread[t].ref].observation_count = thread[t].tmp + 1]
    /\ thread' = [thread EXCEPT ![t].pc =
                     IF thread[t].resource THEN "load_resource" ELSE "done"]
    /\ UNCHANGED <<slot, outsideConc>>

\* profile.resource_frequencies.get(resource, 0)
StepLoadResource(t) ==
    /\ thread[t].pc = "load_resource"
    /\ thread' = [thread EXCEPT ![t] =
                     [@ EXCEPT !.pc = "store_resource",
                               !.tmp = heap[thread[t].ref].resource_count]]
    /\ UNCHANGED <<heap, slot, outsideConc>>

\* profile.resource_frequencies[resource] = ... + 1, and the return
StepStoreResource(t) ==
    /\ thread[t].pc = "store_resource"
    /\ heap' = [heap EXCEPT ![thread[t].ref].resource_count = thread[t].tmp + 1]
    /\ thread' = [thread EXCEPT ![t].pc = "done"]
    /\ UNCHANGED <<slot, outsideConc>>

-----------------------------------------------------------------------------
(* risk/engine.py *)

\* the weights of the risk engine, in hundredths
behavior_weight == 30
device_weight == 20
network_weight == 15
threat_weight == 20
auth_weight == 15

\* self.thresholds
LowThreshold == 3000
MediumThreshold == 5000
HighThreshold == 7000
CriticalThreshold == 9000

RiskThreshold(lbl) ==
    CASE lbl = "low" -> LowThreshold
      [] lbl = "medium" -> MediumThreshold
      [] lbl = "high" -> HighThreshold
      [] lbl = "critical" -> CriticalThreshold

\* ThreatIntel.check_ip(ip)
check_ip(intel, ip) ==
    IF ip \in intel.malicious_ips THEN 10000
    ELSE IF ip \in intel.tor_exit_nodes THEN 7000
    ELSE 0

\* ThreatIntel.check_credential(entity_id)
check_credential(intel, entity_id) ==
    IF entity_id \in intel.compromised_credentials THEN 9000 ELSE 0

\* the threat component of calculate
ThreatScore(intel, in) ==
    LET ip_score   == IF in.source_ip # "" THEN check_ip(intel, in.source_ip) ELSE 0
        cred_score == check_credential(intel, in.entity_id)
    IN  Max(ip_score, cred_score)

\* the components dict of calculate
RiskComponents(intel, in) ==
    [behavior |-> in.behavior_score,
     device   |-> Max(0, Scale - in.device_health),
     network  |-> Max(0, Scale - in.network_trust),
     threat   |-> ThreatScore(intel, in),
     auth     |-> Max(0, Scale - in.auth_strength)]

\* round(max(0.0, min(1.0, sum(components[k] * weights[k]))), 4)
Composite(components) ==
    LET weighted == components.behavior * behavior_weight
                    + components.device * device_weight
                    + components.network * network_weight
                    + components.threat * threat_weight
                    + components.auth * auth_weight
    IN  RoundDiv(Max(0, Min(Scale * 100, weighted)), 100)

\* the labels tried from "low" upwards: the first threshold met wins
RiskLevelAscending(composite) ==
    IF composite >= LowThreshold THEN "low"
    ELSE IF composite >= MediumThreshold THEN "medium"
    ELSE IF composite >= HighThreshold THEN "high"
    ELSE IF composite >= CriticalThreshold THEN "critical"
    ELSE "low"

\* for lbl in ("critical", "high", "medium", "low"): first threshold met, else "low"
RiskLevel(composite) ==
    IF composite >= RiskThreshold("critical") THEN "critical"
    ELSE IF composite >= RiskThreshold("high") THEN "high"
    ELSE IF composite >= RiskThreshold("medium") THEN "medium"
    ELSE IF composite >= RiskThreshold("low") THEN "low"
    ELSE "low"

\* the factors list of calculate
RiskFactors(intel, in) ==
    (IF in.behavior_score > 7000 THEN <<"High behavioral anomaly">> ELSE <<>>)
    \o (IF in.device_health < 5000 THEN <<"Poor device health">> ELSE <<>>)
    \o (IF in.network_trust < 3000 THEN <<"Untrusted network">> ELSE <<>>)
    \o (IF in.source_ip # "" /\ check_ip(intel, in.source_ip) > 0
        THEN <<"Threat intel match on IP">> ELSE <<>>)
    \o (IF check_credential(intel, in.entity_id) > 0
        THEN <<"Compromised credential">> ELSE <<>>)
    \o (IF in.auth_strength < 4000 THEN <<"Weak authentication">> ELSE <<>>)

\* the RiskScore calculate builds
RiskScore(intel, in) ==
    LET components == RiskComponents(intel, in)
        composite  == Composite(components)
    IN  [entity_id       |-> in.entity_id,
         composite_score |-> composite,
         risk_level      |-> RiskLevel(composite),
         components      |-> components,
         factors         |-> RiskFactors(intel, in)]

\* the signals of the risk runs, values outside [0, 1] included
RiskInputs ==
    [entity_id      : {"alice", "bob"},
     behavior_score : {-5000, 0, 3333, 10000, 20000},
     device_health  : {-5000, 0, 10000, 15000},
     network_trust  : {0, 5000, 10000},
     source_ip      : {"", "198.51.100.7", "203.0.113.99"},
     auth_strength  : {0, 3333, 10000}]

\* a Tor exit node
TorExitNodes == {"203.0.113.99"}

\* ThreatIntel.add_malicious_ip(ip)
AddMaliciousIp(ip) ==
    /\ threat_intel' = [threat_intel EXCEPT !.malicious_ips = @ \cup {ip}]
    /\ riskRet' = [op |-> "add_malicious_ip"]
    /\ UNCHANGED <<risk_history, riskIn, outsideRisk>>

\* ThreatIntel.add_compromised_credential(entity_id)
AddCompromisedCredential(entity_id) ==
    /\ threat_intel' = [threat_intel EXCEPT !.compromised_credentials = @ \cup {entity_id}]
    /\ riskRet' = [op |-> "add_compromised_credential"]
    /\ UNCHANGED <<risk_history, riskIn, outsideRisk>>

\* calculate(entity_id, behavior_score, device_health, network_trust, source_ip,
\* auth_strength)
Calculate(in) ==
    /\ SumOver([e \in DOMAIN risk_history |-> Len(risk_history[e])], DOMAIN risk_history)
           < MaxRiskCalls
    /\ LET result == RiskScore(threat_intel, in)
       IN  /\ risk_history' =
                  [e \in DOMAIN risk_history \cup {in.entity_id} |->
                      IF e = in.entity_id
                      THEN Append(MapSeq(risk_history, e), result)
                      ELSE risk_history[e]]
           /\ riskRet' = [op |-> "calculate", result |-> result]
    /\ UNCHANGED <<threat_intel, riskIn, outsideRisk>>

-----------------------------------------------------------------------------
(* lateral/graph.py *)

(* Of a node's feature vector only features[0], the privilege level, is kept.
   adjacency[src][dst] is appended to on every add_edge and never otherwise
   written, so it is read off the log. *)

\* AccessEdge(src, dst, timestamp=...)
AccessEdge(src, dst, timestamp) == [src |-> src, dst |-> dst, timestamp |-> timestamp]

\* add_edge's two "ensure nodes exist" steps on node_types
EnsureNodes(types, edge) ==
    LET withSrc == IF edge.src \in DOMAIN types THEN types
                   ELSE [n \in DOMAIN types \cup {edge.src} |->
                            IF n = edge.src THEN "entity" ELSE types[n]]
    IN  IF edge.dst \in DOMAIN withSrc THEN withSrc
        ELSE [n \in DOMAIN withSrc \cup {edge.dst} |->
                 IF n = edge.dst THEN "resource" ELSE withSrc[n]]

\* add_node's node_features entry for the nodes add_edge creates: np.zeros(8)
EnsureFeatures(features, types, edge) ==
    [n \in DOMAIN features \cup {edge.src, edge.dst} |->
        IF n \in DOMAIN types THEN features[n] ELSE 0]

\* no call is running
Idle == [pc |-> "idle"]

\* the neighbours in both directions
NeighborsEitherWay(log, node_id) ==
    {log[i].dst : i \in {j \in 1 .. Len(log) : log[j].src = node_id}}
    \cup {log[i].src : i \in {j \in 1 .. Len(log) : log[j].dst = node_id}}

\* get_neighbors(node_id): set(self.adjacency.get(node_id, {}).keys())
get_neighbors(log, node_id) ==
    {log[i].dst : i \in {j \in 1 .. Len(log) : log[j].src = node_id}}

\* a set of nodes in the order the for loop meets them: Python fixes no order on
\* a set of str, so each call runs under one order of all nodes, chosen freely
InOrder(nodes, order) == SelectSeq(order, LAMBDA n : n \in nodes)

\* the for loop over the neighbours of the path's last node: the path found, or
\* the visited set and the queue after the loop
RECURSIVE ScanNeighbors(_, _, _, _, _)
ScanNeighbors(todo, path, visited, queue, dst) ==
    IF todo = <<>> THEN [found |-> FALSE, visited |-> visited, queue |-> queue]
    ELSE IF Head(todo) = dst THEN [found |-> TRUE, path |-> Append(path, Head(todo))]
    ELSE IF Head(todo) \notin visited
    THEN ScanNeighbors(Tail(todo), path, visited \cup {Head(todo)},
                       Append(queue, Append(path, Head(todo))), dst)
    ELSE ScanNeighbors(Tail(todo), path, visited, queue, dst)

\* the while loop of shortest_path; the queue holds the paths, <<>> stands for None
RECURSIVE SearchQueue(_, _, _, _, _)
SearchQueue(queue, visited, log, dst, order) ==
    IF queue = <<>> THEN <<>>
    ELSE LET path    == Head(queue)
             current == path[Len(path)]
             scan    == ScanNeighbors(InOrder(get_neighbors(log, current), order),
                                      path, visited, Tail(queue), dst)
         IN  IF scan.found THEN scan.path
             ELSE SearchQueue(scan.queue, scan.visited, log, dst, order)

\* shortest_path(src, dst)
shortest_path(log, src, dst, order) ==
    IF src = dst THEN <<src>>
    ELSE SearchQueue(<< <<src>> >>, {src}, log, dst, order)

-----------------------------------------------------------------------------
(* lateral/detector.py: credential hopping *)

\* LateralMovementDetector(hop_threshold = 2); the default is 3
hop_threshold == 2

\* the sources of the log in the order of their first edge (the keys of by_source)
RECURSIVE SourcesInOrder(_)
SourcesInOrder(log) ==
    IF log = <<>> THEN <<>>
    ELSE LET before == SourcesInOrder(SubSeq(log, 1, Len(log) - 1))
             src    == log[Len(log)].src
         IN  IF \E i \in 1 .. Len(before) : before[i] = src THEN before
             ELSE Append(before, src)

\* an edge put into a list sorted by timestamp, after the entries of the same
\* timestamp: sorted() is stable
RECURSIVE InsertByTime(_, _)
InsertByTime(sorted, edge) ==
    IF sorted = <<>> THEN <<edge>>
    ELSE IF edge.timestamp < Head(sorted).timestamp THEN <<edge>> \o sorted
    ELSE <<Head(sorted)>> \o InsertByTime(Tail(sorted), edge)

\* sorted(edges, key=lambda e: e.timestamp)
RECURSIVE SortByTime(_)
SortByTime(list) ==
    IF list = <<>> THEN <<>>
    ELSE InsertByTime(SortByTime(SubSeq(list, 1, Len(list) - 1)), list[Len(list)])

\* the unique_targets loop: the targets in order of first appearance
RECURSIVE UniqueTargets(_)
UniqueTargets(list) ==
    IF list = <<>> THEN <<>>
    ELSE LET before == UniqueTargets(SubSeq(list, 1, Len(list) - 1))
             dst    == list[Len(list)].dst
         IN  IF \E i \in 1 .. Len(before) : before[i] = dst THEN before
             ELSE Append(before, dst)

\* unique_targets of one source
TargetsOf(log, src) ==
    UniqueTargets(SortByTime(SelectSeq(log, LAMBDA e : e.src = src)))

\* the alert for a source, with every target on the path
HoppingAlertWholePath(src, targets) ==
    [alert_type |-> "credential_hopping",
     severity   |-> RoundDiv(Min(2 * hop_threshold, Len(targets)) * Scale, 2 * hop_threshold),
     path       |-> <<src>> \o targets,
     details    |-> [source |-> src, hop_count |-> Len(targets),
                     threshold |-> hop_threshold]]

\* the alert for a source: the path holds the first hop_threshold + 2 targets
HoppingAlert(src, targets) ==
    [alert_type |-> "credential_hopping",
     severity   |-> RoundDiv(Min(2 * hop_threshold, Len(targets)) * Scale, 2 * hop_threshold),
     path       |-> <<src>> \o SubSeq(targets, 1, Min(Len(targets), hop_threshold + 2)),
     details    |-> [source |-> src, hop_count |-> Len(targets),
                     threshold |-> hop_threshold]]

\* the loop over by_source
RECURSIVE HoppingAlerts(_, _)
HoppingAlerts(log, sources) ==
    IF sources = <<>> THEN <<>>
    ELSE (IF Len(TargetsOf(log, Head(sources))) >= hop_threshold
          THEN <<HoppingAlert(Head(sources), TargetsOf(log, Head(sources)))>>
          ELSE <<>>)
         \o HoppingAlerts(log, Tail(sources))

\* _detect_credential_hopping()
_detect_credential_hopping(log) == HoppingAlerts(log, SourcesInOrder(log))

-----------------------------------------------------------------------------
(* lateral: inputs and operations *)

GraphNodes == {"a", "b", "c", "d", "e"}

\* the edges of the shortest-path runs: a chain a-b-c-d, a shortcut a-c, a cycle
\* back from d; e has no edge
GraphEdges ==
    {AccessEdge("a", "b", 0), AccessEdge("b", "c", 0), AccessEdge("c", "d", 0),
     AccessEdge("a", "c", 0), AccessEdge("d", "a", 0)}

\* the orders a loop over a set of nodes can take
NodeOrders ==
    {<<"a", "b", "c", "d", "e">>, <<"e", "d", "c", "b", "a">>, <<"c", "a", "d", "b", "e">>}

\* the access events of the hopping runs: five targets of one source, out of
\* time order and with repeats, and a second source
HoppingEdges ==
    {AccessEdge("a", "t1", 2), AccessEdge("a", "t2", 1), AccessEdge("a", "t3", 1),
     AccessEdge("a", "t4", 0), AccessEdge("a", "t5", 3), AccessEdge("a", "t1", 0),
     AccessEdge("b", "t1", 0), AccessEdge("b", "a", 1)}

\* add_edge(edge) / add_access_event(edge)
AddEdge(edge, limit) ==
    /\ search = Idle
    /\ Len(edges) < limit
    /\ edges' = Append(edges, edge)
    /\ node_types' = EnsureNodes(node_types, edge)
    /\ node_privilege' = EnsureFeatures(node_privilege, node_types, edge)
    /\ lateralRet' = [op |-> "add_edge"]
    /\ UNCHANGED <<detector, search, outsideLateral>>

\* shortest_path(src, dst)
ShortestPath(src, dst, order) ==
    /\ lateralRet' = [op |-> "shortest_path", src |-> src, dst |-> dst,
                      path |-> shortest_path(edges, src, dst, order)]
    /\ UNCHANGED <<edges, node_types, node_privilege, detector, search, outsideLateral>>

\* _detect_credential_hopping()
DetectCredentialHopping ==
    /\ lateralRet' = [op |-> "detect_credential_hopping",
                      alerts |-> _detect_credential_hopping(edges)]
    /\ UNCHANGED <<edges, node_types, node_privilege, detector, search, outsideLateral>>

-----------------------------------------------------------------------------
(* lateral/graph.py and lateral/detector.py, one loop iteration or call at a time *)

(* search holds the locals of the one call that is running.  A step of dfs is the
   entry of a call or one pass of its for loop; the call stack is the list of
   the neighbours each open for loop has still to visit. *)

\* all_paths: the locals before dfs(src, dst, [src], {src})
DfsStart(src, dst, max_depth, order) ==
    [called |-> TRUE, src |-> src, target |-> dst, max_depth |-> max_depth,
     order |-> order, path |-> <<src>>, visited |-> {src}, stack |-> <<>>,
     entering |-> TRUE, paths |-> <<>>, done |-> FALSE]

\* no all_paths call is open
NoCall == [called |-> FALSE, done |-> FALSE]

\* "len(path) > max_depth", one node late
DepthExceededByOne(path, max_depth) == Len(path) > max_depth + 1

\* "len(path) > max_depth"
DepthExceeded(path, max_depth) == Len(path) > max_depth

\* "neighbor not in visited", without the test
NeverVisited(neighbor, visited) == TRUE

\* "neighbor not in visited"
NotVisited(neighbor, visited) == neighbor \notin visited

\* a return of dfs: the root call ends all_paths, any other goes back to the
\* caller's path.pop() and visited.remove(neighbor)
DfsReturn(d, stack, paths) ==
    IF Len(d.path) = 1
    THEN [d EXCEPT !.stack = stack, !.paths = paths, !.entering = FALSE, !.done = TRUE]
    ELSE [d EXCEPT !.stack = stack, !.paths = paths, !.entering = FALSE,
                   !.path = SubSeq(d.path, 1, Len(d.path) - 1),
                   !.visited = d.visited \ {d.path[Len(d.path)]}]

\* one step of dfs
DfsStep(d, log) ==
    LET current == d.path[Len(d.path)]
    IN  IF d.entering
        THEN IF DepthExceeded(d.path, d.max_depth) THEN DfsReturn(d, d.stack, d.paths)
             ELSE IF current = d.target
             THEN DfsReturn(d, d.stack, Append(d.paths, d.path))
             ELSE [d EXCEPT !.entering = FALSE,
                            !.stack = Append(d.stack,
                                             InOrder(get_neighbors(log, current), d.order))]
        ELSE LET todo == d.stack[Len(d.stack)]
                 below == SubSeq(d.stack, 1, Len(d.stack) - 1)
             IN  IF todo = <<>> THEN DfsReturn(d, below, d.paths)
                 ELSE IF NotVisited(Head(todo), d.visited)
                 THEN [d EXCEPT !.stack = Append(below, Tail(todo)),
                                !.visited = d.visited \cup {Head(todo)},
                                !.path = Append(d.path, Head(todo)),
                                !.entering = TRUE]
                 ELSE [d EXCEPT !.stack = Append(below, Tail(todo))]

\* the max_depth _detect_privilege_escalation passes to all_paths
escalation_depth == 4

\* all_paths' default max_depth
default_max_depth == 5

\* self.anomaly_threshold = 2.0
anomaly_threshold == 2 * Scale

\* the privilege classes: features[0] > 0.7 and features[0] < 0.3
high_priv_nodes(features) == {n \in DOMAIN features : features[n] > 7000}

low_priv_nodes(features) == {n \in DOMAIN features : features[n] < 3000}

\* the (low, high) pairs in the order of the two for loops
RECURSIVE PrivilegePairs(_, _)
PrivilegePairs(lows, highs) ==
    IF lows = <<>> THEN <<>>
    ELSE [i \in 1 .. Len(highs) |-> [low |-> Head(lows), high |-> highs[i]]]
         \o PrivilegePairs(Tail(lows), highs)

\* the alerts for the paths of one pair: those of three nodes or more
RECURSIVE EscalationAlerts(_, _, _)
EscalationAlerts(paths, low, high) ==
    IF paths = <<>> THEN <<>>
    ELSE (IF Len(Head(paths)) >= 3
          THEN <<[alert_type |-> "privilege_escalation",
                  severity   |-> 6000 + 1000 * Len(Head(paths)),
                  path       |-> Head(paths),
                  details    |-> [source |-> low, target |-> high,
                                  hops |-> Len(Head(paths)) - 1]]>>
          ELSE <<>>)
         \o EscalationAlerts(Tail(paths), low, high)

\* the credential hopping alert under the detector's own hop_threshold
HoppingAlertAt(src, targets, hops) ==
    [alert_type |-> "credential_hopping",
     severity   |-> RoundDiv(Min(2 * hops, Len(targets)) * Scale, 2 * hops),
     path       |-> <<src>> \o SubSeq(targets, 1, Min(Len(targets), hops + 2)),
     details    |-> [source |-> src, hop_count |-> Len(targets), threshold |-> hops]]

RECURSIVE HoppingAlertsAt(_, _, _)
HoppingAlertsAt(log, sources, hops) ==
    IF sources = <<>> THEN <<>>
    ELSE (IF Len(TargetsOf(log, Head(sources))) >= hops
          THEN <<HoppingAlertAt(Head(sources), TargetsOf(log, Head(sources)), hops)>>
          ELSE <<>>)
         \o HoppingAlertsAt(log, Tail(sources), hops)

(* The embeddings are not computed: the distance of a node's embedding from its
   baseline is any of a few values, as the caller of _detect_embedding_anomalies
   cannot tell it from the graph without the weights. *)

\* sorted(self.node_features.keys())
SortedNodes == <<"a", "b", "c", "d", "e">>

\* the loop of _detect_embedding_anomalies over the nodes
RECURSIVE EmbeddingAlerts(_, _, _)
EmbeddingAlerts(nodes, baseline, distance) ==
    IF nodes = <<>> THEN <<>>
    ELSE (IF Head(nodes) \in baseline /\ distance[Head(nodes)] > anomaly_threshold
          THEN <<[alert_type |-> "embedding_anomaly",
                  severity   |-> RoundDiv(Min(3 * anomaly_threshold, distance[Head(nodes)])
                                              * Scale, 3 * anomaly_threshold),
                  path       |-> <<Head(nodes)>>,
                  details    |-> [node |-> Head(nodes),
                                  embedding_distance |-> distance[Head(nodes)],
                                  threshold |-> anomaly_threshold]]>>
          ELSE <<>>)
         \o EmbeddingAlerts(Tail(nodes), baseline, distance)

\* an alert put into a list sorted by falling severity, after its equals
RECURSIVE InsertBySeverity(_, _)
InsertBySeverity(sorted, alert) ==
    IF sorted = <<>> THEN <<alert>>
    ELSE IF alert.severity > Head(sorted).severity THEN <<alert>> \o sorted
    ELSE <<Head(sorted)>> \o InsertBySeverity(Tail(sorted), alert)

\* sorted(alerts, key=lambda a: a.severity, reverse=True)
RECURSIVE SortBySeverity(_)
SortBySeverity(alerts) ==
    IF alerts = <<>> THEN <<>>
    ELSE InsertBySeverity(SortBySeverity(SubSeq(alerts, 1, Len(alerts) - 1)),
                          alerts[Len(alerts)])

\* the access events of the search runs, added in this order, each one or not:
\* a chain a-b-c-d, a cycle back from c, a self-loop, a second edge from a to b,
\* and a detour from c over e to d
LateralEdges ==
    <<AccessEdge("a", "b", 0), AccessEdge("b", "c", 0), AccessEdge("c", "d", 0),
      AccessEdge("c", "a", 1), AccessEdge("a", "a", 0), AccessEdge("a", "b", 1),
      AccessEdge("c", "e", 2), AccessEdge("e", "d", 0)>>

\* the events of LateralEdges after the last one of the log
LaterEdges(log) ==
    {LateralEdges[i] : i \in {j \in 1 .. Len(LateralEdges) :
        \A k \in j .. Len(LateralEdges) : log # <<>> => LateralEdges[k] # log[Len(log)]}}

\* the node add_node is called for: d with high privilege
LateralNodes ==
    {[node_id |-> "d", node_type |-> "resource", privilege |-> 9000]}

\* the hop_threshold values a detector is made with
HopThresholds == {1, 3}

\* the orders of the search runs
LateralOrders == {<<"a", "b", "c", "d", "e">>, <<"e", "d", "c", "b", "a">>}

\* the queries of the search runs
PathQueries ==
    {[src |-> "a", dst |-> "d", max_depth |-> default_max_depth],
     [src |-> "a", dst |-> "d", max_depth |-> 2],
     [src |-> "a", dst |-> "a", max_depth |-> default_max_depth]}

\* the embedding distances of a detect call: none, or some past the threshold
EmbeddingDistances ==
    {[n \in GraphNodes |-> 0],
     [n \in GraphNodes |-> IF n \in {"a", "c"} THEN anomaly_threshold ELSE 45000],
     [n \in GraphNodes |-> IF n = "a" THEN anomaly_threshold + 1 ELSE 70000]}

\* add_node(node_id, node_type, features)
AddNode(node_id, node_type, privilege) ==
    /\ search = Idle
    /\ node_types' = [n \in DOMAIN node_types \cup {node_id} |->
                         IF n = node_id THEN node_type ELSE node_types[n]]
    /\ node_privilege' = [n \in DOMAIN node_privilege \cup {node_id} |->
                             IF n = node_id THEN privilege ELSE node_privilege[n]]
    /\ lateralRet' = [op |-> "add_node"]
    /\ UNCHANGED <<edges, detector, search, outsideLateral>>

\* learn_baseline()
LearnBaseline ==
    /\ search = Idle
    /\ detector' = [detector EXCEPT !.baseline_embeddings = @ \cup DOMAIN node_privilege]
    /\ lateralRet' = [op |-> "learn_baseline", count |-> Cardinality(DOMAIN node_privilege)]
    /\ UNCHANGED <<edges, node_types, node_privilege, search, outsideLateral>>

\* shortest_path(src, dst) up to its while loop
CallShortestPath(src, dst, order) ==
    /\ search = Idle
    /\ IF src = dst
       THEN /\ search' = Idle
            /\ lateralRet' = [op |-> "shortest_path", src |-> src, dst |-> dst,
                              path |-> <<src>>]
       ELSE /\ search' = [pc |-> "shortest_path", src |-> src, dst |-> dst,
                          order |-> order, queue |-> << <<src>> >>, visited |-> {src}]
            /\ lateralRet' = NoReturn
    /\ UNCHANGED <<edges, node_types, node_privilege, detector, outsideLateral>>

\* one pass of shortest_path's while loop, or its return of None
StepShortestPath ==
    /\ search.pc = "shortest_path"
    /\ IF search.queue = <<>>
       THEN /\ search' = Idle
            /\ lateralRet' = [op |-> "shortest_path", src |-> search.src,
                              dst |-> search.dst, path |-> <<>>]
       ELSE LET path == Head(search.queue)
                scan == ScanNeighbors(
                            InOrder(get_neighbors(edges, path[Len(path)]), search.order),
                            path, search.visited, Tail(search.queue), search.dst)
            IN  IF scan.found
                THEN /\ search' = Idle
                     /\ lateralRet' = [op |-> "shortest_path", src |-> search.src,
                                       dst |-> search.dst, path |-> scan.path]
                ELSE /\ search' = [search EXCEPT !.queue = scan.queue,
                                                 !.visited = scan.visited]
                     /\ UNCHANGED lateralRet
    /\ UNCHANGED <<edges, node_types, node_privilege, detector, outsideLateral>>

\* all_paths(src, dst, max_depth) up to its call of dfs
CallAllPaths(src, dst, max_depth, order) ==
    /\ search = Idle
    /\ search' = [pc |-> "all_paths", dfs |-> DfsStart(src, dst, max_depth, order)]
    /\ lateralRet' = NoReturn
    /\ UNCHANGED <<edges, node_types, node_privilege, detector, outsideLateral>>

\* one step of the dfs of all_paths
StepAllPaths ==
    /\ search.pc = "all_paths"
    /\ ~search.dfs.done
    /\ search' = [search EXCEPT !.dfs = DfsStep(@, edges)]
    /\ UNCHANGED <<edges, node_types, node_privilege, detector, lateralRet, outsideLateral>>

\* all_paths: return paths
ReturnAllPaths ==
    /\ search.pc = "all_paths"
    /\ search.dfs.done
    /\ search' = Idle
    /\ lateralRet' = [op |-> "all_paths", src |-> search.dfs.src,
                      dst |-> search.dfs.target, max_depth |-> search.dfs.max_depth,
                      paths |-> search.dfs.paths]
    /\ UNCHANGED <<edges, node_types, node_privilege, detector, outsideLateral>>

\* detect() through _detect_credential_hopping and the two privilege classes
CallDetect(order) ==
    /\ search = Idle
    /\ search' = [pc |-> "detect", order |-> order,
                  alerts |-> HoppingAlertsAt(edges, SourcesInOrder(edges),
                                             detector.hop_threshold),
                  pairs |-> PrivilegePairs(InOrder(low_priv_nodes(node_privilege), order),
                                           InOrder(high_priv_nodes(node_privilege), order)),
                  dfs |-> NoCall]
    /\ lateralRet' = NoReturn
    /\ UNCHANGED <<edges, node_types, node_privilege, detector, outsideLateral>>

\* _detect_privilege_escalation: all_paths(low, high, max_depth=4) is called
StepDetectCall ==
    /\ search.pc = "detect"
    /\ search.pairs # <<>>
    /\ ~search.dfs.called
    /\ search' = [search EXCEPT !.dfs = DfsStart(Head(search.pairs).low,
                                                  Head(search.pairs).high,
                                                  escalation_depth, search.order)]
    /\ UNCHANGED <<edges, node_types, node_privilege, detector, lateralRet, outsideLateral>>

\* _detect_privilege_escalation: one step of the dfs of the open all_paths
StepDetectDfs ==
    /\ search.pc = "detect"
    /\ search.dfs.called
    /\ ~search.dfs.done
    /\ search' = [search EXCEPT !.dfs = DfsStep(@, edges)]
    /\ UNCHANGED <<edges, node_types, node_privilege, detector, lateralRet, outsideLateral>>

\* _detect_privilege_escalation: the loop over the paths all_paths returned
StepDetectPaths ==
    /\ search.pc = "detect"
    /\ search.dfs.called
    /\ search.dfs.done
    /\ search' = [search EXCEPT
                      !.alerts = @ \o EscalationAlerts(search.dfs.paths,
                                                       Head(search.pairs).low,
                                                       Head(search.pairs).high),
                      !.pairs = Tail(@),
                      !.dfs = NoCall]
    /\ UNCHANGED <<edges, node_types, node_privilege, detector, lateralRet, outsideLateral>>

\* detect(): _detect_embedding_anomalies, the sort and the return
ReturnDetect(distance) ==
    /\ search.pc = "detect"
    /\ search.pairs = <<>>
    /\ search' = Idle
    /\ lateralRet' =
           [op |-> "detect",
            alerts |-> SortBySeverity(
                search.alerts
                \o (IF detector.baseline_embeddings = {} THEN <<>>
                    ELSE EmbeddingAlerts(InOrder(DOMAIN node_privilege, SortedNodes),
                                         detector.baseline_embeddings, distance)))]
    /\ UNCHANGED <<edges, node_types, node_privilege, detector, outsideLateral>>

-----------------------------------------------------------------------------
(* microseg/segments.py *)

(* name, description, trust_level and tags play no part in is_allowed and are
   left out of the segment record. *)

\* Segment(segment_id=..., ...): every set empty
Segment(segment_id) ==
    [segment_id |-> segment_id, members |-> {},
     allowed_inbound_segments |-> {}, allowed_outbound_segments |-> {},
     allowed_ports |-> {}]

\* the place of a segment_id in the dict, 0 when absent
SegmentIndex(segs, segment_id) ==
    IF \E i \in 1 .. Len(segs) : segs[i].segment_id = segment_id
    THEN CHOOSE i \in 1 .. Len(segs) : segs[i].segment_id = segment_id
    ELSE 0

\* self.segments[segment_id] = seg: a key already there keeps its place
SegmentPut(segs, seg) ==
    IF SegmentIndex(segs, seg.segment_id) = 0 THEN Append(segs, seg)
    ELSE [segs EXCEPT ![SegmentIndex(segs, seg.segment_id)] = seg]

\* get_member_segment(member): the first segment holding the member, "" for None
get_member_segment(segs, member) ==
    IF \E i \in 1 .. Len(segs) : member \in segs[i].members
    THEN segs[CHOOSE i \in 1 .. Len(segs) :
                 /\ member \in segs[i].members
                 /\ \A j \in 1 .. i - 1 : member \notin segs[j].members].segment_id
    ELSE ""

\* the port test of is_allowed
PortRefused(port, dst_seg) ==
    port > 0 /\ dst_seg.allowed_ports # {} /\ port \notin dst_seg.allowed_ports

\* is_allowed(src_member, dst_member, port)
is_allowed(segs, src_member, dst_member, port) ==
    LET src_seg_id == get_member_segment(segs, src_member)
        dst_seg_id == get_member_segment(segs, dst_member)
    IN  IF src_seg_id = "" \/ dst_seg_id = "" THEN FALSE
        ELSE IF src_seg_id = dst_seg_id THEN TRUE
        ELSE IF dst_seg_id \notin segs[SegmentIndex(segs, src_seg_id)].allowed_outbound_segments
        THEN FALSE
        ELSE ~PortRefused(port, segs[SegmentIndex(segs, dst_seg_id)])

\* isolation_score()
isolation_score(segs) ==
    LET total_possible == Len(segs) * (Len(segs) - 1)
        actual == SumSeq([i \in 1 .. Len(segs) |->
                             Cardinality(segs[i].allowed_outbound_segments)])
    IN  IF segs = <<>> THEN 0
        ELSE IF total_possible = 0 THEN Scale
        ELSE RoundDiv((total_possible - actual) * Scale, total_possible)

SegmentIds == {"web", "db"}
Members == {"w1", "d1", "x"}
DefaultPort == 0
Ports == {DefaultPort, 22, 443}
\* the ports argument of allow_communication: None or a list
PortLists == {{}, {443}}

\* create_segment(segment_id, name)
CreateSegment(segment_id) ==
    /\ segments' = SegmentPut(segments, Segment(segment_id))
    /\ segRet' = [op |-> "create_segment", segment_id |-> segment_id]
    /\ UNCHANGED outsideSeg

\* add_member(segment_id, member)
AddMember(segment_id, member) ==
    LET i == SegmentIndex(segments, segment_id)
    IN  /\ segments' = IF i = 0 THEN segments
                       ELSE [segments EXCEPT ![i].members = @ \cup {member}]
        /\ segRet' = [op |-> "add_member", result |-> i # 0]
        /\ UNCHANGED outsideSeg

\* allow_communication(from_seg, to_seg, ports)
AllowCommunication(from_seg, to_seg, ports) ==
    LET src == SegmentIndex(segments, from_seg)
        dst == SegmentIndex(segments, to_seg)
        outbound == [segments EXCEPT ![src].allowed_outbound_segments = @ \cup {to_seg}]
    IN  /\ segments' =
              IF src = 0 \/ dst = 0 THEN segments
              ELSE [outbound EXCEPT ![dst].allowed_inbound_segments = @ \cup {from_seg},
                                    ![dst].allowed_ports = @ \cup ports]
        /\ segRet' = [op |-> "allow_communication", result |-> src # 0 /\ dst # 0]
        /\ UNCHANGED outsideSeg

\* isolation_score()
IsolationScore ==
    /\ segRet' = [op |-> "isolation_score", result |-> isolation_score(segments)]
    /\ UNCHANGED <<segments, outsideSeg>>

\* is_allowed(src_member, dst_member, port)
IsAllowed(src_member, dst_member, port) ==
    /\ segRet' = [op |-> "is_allowed", src_member |-> src_member,
                  dst_member |-> dst_member, port |-> port,
                  result |-> is_allowed(segments, src_member, dst_member, port)]
    /\ UNCHANGED <<segments, outsideSeg>>

-----------------------------------------------------------------------------
(* behavioral/session.py *)

(* time.time() is a clock of whole ticks that every start_session and
   end_session call moves on by one.  source_ip, location and user_agent are
   left at their default "", so the check of the active sessions' addresses
   (never true for an empty source_ip) adds no risk and is left out; actions
   and risk_flags of a Session are not modelled. *)

\* SessionAnalyzer(max_concurrent = 2); the default is 3
max_concurrent == 2

\* the ids of a list that are in self.sessions and active, repeats kept
ActiveIds(sess, ids) ==
    SelectSeq(ids, LAMBDA sid : sid \in DOMAIN sess /\ sess[sid].is_active)

\* a dict with one key set
DictPut(d, key, value) ==
    [k \in DOMAIN d \cup {key} |-> IF k = key THEN value ELSE d[k]]

\* self.entity_sessions[entity_id], created empty when missing
SessionList(lists, entity_id) ==
    IF entity_id \in DOMAIN lists THEN lists[entity_id] ELSE <<>>

\* start_session(session_id, entity_id)
StartSession(session_id, entity_id) ==
    LET active == ActiveIds(sessions, SessionList(entity_sessions, entity_id))
        risks  == IF Len(active) >= max_concurrent
                  THEN <<"excessive_concurrent_sessions">> ELSE <<>>
    IN  /\ now < MaxSessionCalls
        /\ now' = now + 1
        /\ sessions' = DictPut(sessions, session_id,
                               [session_id |-> session_id, entity_id |-> entity_id,
                                start_time |-> now', last_activity |-> now',
                                is_active |-> TRUE])
        /\ entity_sessions' = DictPut(entity_sessions, entity_id,
                                      Append(SessionList(entity_sessions, entity_id),
                                             session_id))
        /\ sessRet' = [op |-> "start_session", session_id |-> session_id,
                       entity_id |-> entity_id, concurrent_count |-> Len(active) + 1,
                       risks |-> risks,
                       risk_score |-> Min(Scale, Len(risks) * 4000)]
        /\ UNCHANGED outsideSess

\* end_session(session_id)
EndSession(session_id) ==
    /\ now < MaxSessionCalls
    /\ now' = now + 1
    /\ IF session_id \notin DOMAIN sessions
       THEN /\ sessRet' = [op |-> "end_session", error |-> "session_not_found"]
            /\ UNCHANGED sessions
       ELSE /\ sessions' = [sessions EXCEPT ![session_id].is_active = FALSE,
                                            ![session_id].last_activity = now']
            /\ sessRet' = [op |-> "end_session", error |-> "none",
                           session_id |-> session_id]
    /\ UNCHANGED <<entity_sessions, outsideSess>>

\* cleanup_expired(max_age)
CleanupExpired(max_age) ==
    LET expired == {sid \in DOMAIN sessions : now - sessions[sid].last_activity > max_age}
    IN  /\ sessions' = [sid \in DOMAIN sessions \ expired |-> sessions[sid]]
        /\ sessRet' = [op |-> "cleanup_expired", removed |-> Cardinality(expired)]
        /\ UNCHANGED <<entity_sessions, now, outsideSess>>

SessionNames == {"s1", "s2"}
SessionEntities == {"alice", "bob"}
MaxAges == {0, 1}

-----------------------------------------------------------------------------
(* policy/engine.py: detect_conflicts *)

\* the enabled rules of one policy with its id, in rule order
RECURSIVE EnabledRules(_, _)
EnabledRules(policy_id, rules) ==
    IF rules = <<>> THEN <<>>
    ELSE (IF Head(rules).enabled
          THEN <<[policy_id |-> policy_id, rule |-> Head(rules)]>> ELSE <<>>)
         \o EnabledRules(policy_id, Tail(rules))

\* all_rules: the enabled rules of the enabled policies, in store order
RECURSIVE AllRules(_)
AllRules(store) ==
    IF store = <<>> THEN <<>>
    ELSE (IF Head(store).enabled
          THEN EnabledRules(Head(store).policy_id, Head(store).rules) ELSE <<>>)
         \o AllRules(Tail(store))

\* the fields of a condition list
FieldsOf(conds) == {conds[i].field : i \in 1 .. Len(conds)}

\* _conditions_overlap that takes rules without a shared field as disjoint
ConditionsOverlapOnSharedOnly(conds1, conds2) ==
    /\ FieldsOf(conds1) \cap FieldsOf(conds2) # {}
    /\ ~\E i \in 1 .. Len(conds1), j \in 1 .. Len(conds2) :
           /\ conds1[i].field = conds2[j].field
           /\ conds1[i].operator = "eq" /\ conds2[j].operator = "eq"
           /\ conds1[i].value # conds2[j].value

\* _conditions_overlap(conds1, conds2)
_conditions_overlap(conds1, conds2) ==
    IF FieldsOf(conds1) \cap FieldsOf(conds2) = {} THEN TRUE
    ELSE ~\E i \in 1 .. Len(conds1), j \in 1 .. Len(conds2) :
             /\ conds1[i].field = conds2[j].field
             /\ conds1[i].operator = "eq" /\ conds2[j].operator = "eq"
             /\ conds1[i].value # conds2[j].value

\* the conflict entry of the pair all_rules[i], all_rules[j]
ConflictEntry(first, second) ==
    [rule_1 |-> [policy_id |-> first.policy_id, rule_id |-> first.rule.rule_id,
                 effect |-> first.rule.effect],
     rule_2 |-> [policy_id |-> second.policy_id, rule_id |-> second.rule.rule_id,
                 effect |-> second.rule.effect],
     type |-> "overlapping_conditions_different_effects",
     resolved_by |-> "priority",
     winner |-> IF first.rule.priority <= second.rule.priority
                THEN first.rule.rule_id ELSE second.rule.rule_id]

\* the two loops over i and j > i
RECURSIVE ComparePairs(_, _, _)
ComparePairs(all, i, j) ==
    IF i >= Len(all) THEN <<>>
    ELSE IF j > Len(all) THEN ComparePairs(all, i + 1, i + 2)
    ELSE (IF /\ all[i].rule.effect # all[j].rule.effect
             /\ _conditions_overlap(all[i].rule.conditions, all[j].rule.conditions)
          THEN <<ConflictEntry(all[i], all[j])>> ELSE <<>>)
         \o ComparePairs(all, i, j + 1)

\* detect_conflicts()
detect_conflicts(store) == ComparePairs(AllRules(store), 1, 2)

\* rules on x = 2: disjoint from x = 1 on the shared field; r9 also holds x = 1
PolicyDenyTwo ==
    MakePolicy("p4", TRUE,
        <<Rule("r8", "deny", 10, TRUE,
               <<Condition("x", "eq", IntVal(2)),
                 Condition("zone", "eq", StrVal("internal"))>>),
          Rule("r9", "challenge", 10, TRUE,
               <<Condition("x", "eq", IntVal(1)), Condition("x", "eq", IntVal(2))>>)>>)

\* the policies of the conflict runs
ConflictPool == {PolicyAllowLow, PolicyDenyHigh, PolicyOff, PolicyZones, PolicyDenyTwo}

-----------------------------------------------------------------------------
(* policy/engine.py: operations *)

\* add_policy(policy)
AddPolicy(policy) ==
    /\ policies' = StorePut(policies, policy)
    /\ policyRet' = [op |-> "add_policy", policy_id |-> policy.policy_id]
    /\ UNCHANGED outsidePolicy

\* remove_policy(policy_id)
RemovePolicy(policy_id) ==
    /\ policies' = StorePop(policies, policy_id)
    /\ policyRet' = [op |-> "remove_policy", policy_id |-> policy_id,
                     result |-> PolicyIndex(policies, policy_id) # 0]
    /\ UNCHANGED outsidePolicy

\* export_yaml() on the engine, then load_yaml(export) on a new PolicyEngine()
ExportThenLoad ==
    /\ policyRet' = [op       |-> "export_load",
                     raised   |-> IF LoadRaises(export_yaml(policies))
                                  THEN "ConstructorError" ELSE "none",
                     imported |-> load_yaml(<<>>, export_yaml(policies))]
    /\ UNCHANGED <<policies, outsidePolicy>>

\* detect_conflicts()
DetectConflicts ==
    /\ policyRet' = [op |-> "detect_conflicts", conflicts |-> detect_conflicts(policies)]
    /\ UNCHANGED <<policies, outsidePolicy>>

\* evaluate(context)
EvaluatePolicy(context) ==
    /\ policyRet' = [op |-> "evaluate", context |-> context,
                     result |-> PolicyEvaluate(policies, context)]
    /\ UNCHANGED <<policies, outsidePolicy>>

-----------------------------------------------------------------------------
(* Specifications *)

InitAccess ==
    /\ decision_log = <<>>
    /\ resource_sensitivity = EmptyMap
    /\ states = EmptyMap
    /\ accessRet = NoReturn
    /\ levelSet = EmptyMap
    /\ evalHistory = <<>>

IdleContext ==
    CHOOSE c \in SessionContexts :
        c.entity_id = "a" /\ c.session_id = "c" /\ c.behavior_score = 1000

InitPolicy ==
    /\ policies = <<>>
    /\ policyRet = NoReturn

\* no request thread has started
InitConc ==
    /\ heap = <<>>
    /\ slot = 0
    /\ thread = [t \in Threads |-> IdleThread]

\* RiskEngine(): no intelligence beyond the known Tor exit nodes, no history
InitRisk ==
    /\ threat_intel = [malicious_ips |-> {}, compromised_credentials |-> {},
                       tor_exit_nodes |-> TorExitNodes]
    /\ risk_history = EmptyMap
    /\ riskRet = NoReturn

IdleRiskInput ==
    [entity_id |-> "alice", behavior_score |-> 0, device_health |-> 10000,
     network_trust |-> 5000, source_ip |-> "", auth_strength |-> 5000]

\* AccessGraph(): no edges, no nodes
InitLateral ==
    /\ edges = <<>>
    /\ node_types = EmptyMap
    /\ node_privilege = EmptyMap
    /\ detector = [hop_threshold |-> hop_threshold, baseline_embeddings |-> {}]
    /\ search = Idle
    /\ lateralRet = NoReturn

\* SegmentManager(): no segments
InitSeg ==
    /\ segments = <<>>
    /\ segRet = NoReturn

\* SessionAnalyzer(): no sessions
InitSess ==
    /\ sessions = EmptyMap
    /\ entity_sessions = EmptyMap
    /\ now = 0
    /\ sessRet = NoReturn

\* the components added after the policy engine, untouched
InitRest ==
    /\ InitConc
    /\ InitRisk
    /\ riskIn = IdleRiskInput
    /\ InitLateral
    /\ InitSeg
    /\ InitSess

InitBaseline ==
    /\ profiles = EmptyMap
    /\ decays = 0
    /\ baselineRet = NoReturn
    /\ calls = [observe |-> 0, observe_batch |-> 0]
    /\ observed = [e \in Entities \cup {Stranger} |-> 0]

\* the verifier and its engine, driven by session requests
InitVerifier ==
    /\ InitAccess
    /\ InitBaseline
    /\ InitPolicy
    /\ InitRest
    /\ threshold = 7000
    /\ ctxIn = IdleContext

NextVerifier ==
    \/ \E ctx \in SessionContexts : Evaluate(ctx)
    \/ \E ctx \in SessionContexts : InitializeSession(ctx)
    \/ \E ctx \in SessionContexts : Reverify(ctx)

SpecVerifier == InitVerifier /\ [][NextVerifier]_vars

\* the engine alone, on one context drawn at the start
InitEngine ==
    /\ InitAccess
    /\ InitBaseline
    /\ InitPolicy
    /\ InitRest
    /\ threshold = 7000
    /\ ctxIn \in EngineContexts

NextEngine ==
    \/ Len(decision_log) < MaxEvals /\ Evaluate(ctxIn)
    \/ \E level \in Levels : SetResourceSensitivity(ctxIn.resource, level)

SpecEngine == InitEngine /\ [][NextEngine]_vars
\* the decision log and its reader
InitLog ==
    /\ InitAccess
    /\ InitBaseline
    /\ InitPolicy
    /\ InitRest
    /\ threshold = 7000
    /\ ctxIn = IdleContext

NextLog ==
    \/ \E ctx \in LogContexts : Evaluate(ctx)
    \/ \E n \in 0 .. MaxLog + 1 : RecentDecisions(n)

SpecLog == InitLog /\ [][NextLog]_vars
\* the baseline store: two entities observed, profiles decayed
InitStore ==
    /\ InitAccess
    /\ ctxIn = IdleContext
    /\ InitBaseline
    /\ InitPolicy
    /\ InitRest
    /\ threshold = 7000

NextStore ==
    \/ \E e \in Entities, event \in ObserveEvents : Observe(e, event)
    \/ \E e \in Entities, events \in Batches : ObserveBatch(e, events)
    \/ DecayProfiles

SpecStore == InitStore /\ [][NextStore]_vars

\* the store fed events with malformed fields
InitObserve ==
    /\ InitAccess
    /\ ctxIn = IdleContext
    /\ InitBaseline
    /\ threshold = 7000
    /\ InitPolicy
    /\ InitRest

NextObserve ==
    \/ \E event \in ObserveEvents \cup MalformedEvents \cup {EvUnknownKey} :
           Observe("alice", event)
    \/ ObserveBatch("alice", MixedBatch)
    \/ DecayProfiles

SpecObserve == InitObserve /\ [][NextObserve]_vars

\* concurrent request threads, each calling observe once for the same entity
InitThreads ==
    /\ InitAccess
    /\ ctxIn = IdleContext
    /\ InitBaseline
    /\ threshold = 7000
    /\ InitPolicy
    /\ InitRest

NextThreads ==
    \/ \E t \in Threads, withResource \in BOOLEAN : CallObserve(t, withResource)
    \/ \E t \in Threads : StepCheck(t)
    \/ \E t \in Threads : StepCreate(t)
    \/ \E t \in Threads : StepFetch(t)
    \/ \E t \in Threads : StepLoadCount(t)
    \/ \E t \in Threads : StepStoreCount(t)
    \/ \E t \in Threads : StepLoadResource(t)
    \/ \E t \in Threads : StepStoreResource(t)

SpecThreads == InitThreads /\ [][NextThreads]_vars

\* the risk engine on one set of signals drawn at the start
InitRiskEngine ==
    /\ InitAccess
    /\ ctxIn = IdleContext
    /\ InitBaseline
    /\ threshold = 7000
    /\ InitPolicy
    /\ InitConc
    /\ InitRisk
    /\ riskIn \in RiskInputs
    /\ InitLateral
    /\ InitSeg
    /\ InitSess

NextRiskEngine ==
    \/ Calculate(riskIn)
    \/ AddMaliciousIp("198.51.100.7")
    \/ AddCompromisedCredential("alice")

SpecRisk == InitRiskEngine /\ [][NextRiskEngine]_vars

\* the access graph: edges added, shortest paths asked for
InitGraph ==
    /\ InitAccess
    /\ ctxIn = IdleContext
    /\ InitBaseline
    /\ threshold = 7000
    /\ InitPolicy
    /\ InitRest

NextGraph ==
    \/ \E edge \in GraphEdges : AddEdge(edge, MaxGraphEdges)
    \/ \E src \in GraphNodes, dst \in GraphNodes, order \in NodeOrders :
           ShortestPath(src, dst, order)

SpecGraph == InitGraph /\ [][NextGraph]_vars

\* the lateral movement detector: access events logged, hopping looked for
NextHopping ==
    \/ \E edge \in HoppingEdges : AddEdge(edge, MaxLogEdges)
    \/ DetectCredentialHopping

SpecHopping == InitGraph /\ [][NextHopping]_vars

\* the lateral movement detector and its graph, the searches one step at a time
InitSearch ==
    /\ InitAccess
    /\ ctxIn = IdleContext
    /\ InitBaseline
    /\ threshold = 7000
    /\ InitPolicy
    /\ InitConc
    /\ InitRisk
    /\ riskIn = IdleRiskInput
    /\ edges = <<>>
    /\ node_types = EmptyMap
    /\ node_privilege = EmptyMap
    /\ detector \in [hop_threshold : HopThresholds, baseline_embeddings : {{}}]
    /\ search = Idle
    /\ lateralRet = NoReturn
    /\ InitSeg
    /\ InitSess

StepSearch ==
    \/ StepShortestPath
    \/ StepAllPaths
    \/ ReturnAllPaths
    \/ StepDetectCall
    \/ StepDetectDfs
    \/ StepDetectPaths
    \/ \E distance \in EmbeddingDistances : ReturnDetect(distance)

NextSearch ==
    \/ \E edge \in LaterEdges(edges) : AddEdge(edge, MaxLateralEdges)
    \/ \E node \in LateralNodes : AddNode(node.node_id, node.node_type, node.privilege)
    \/ LearnBaseline
    \/ \E query \in PathQueries, order \in LateralOrders :
           CallShortestPath(query.src, query.dst, order)
    \/ \E query \in PathQueries, order \in LateralOrders :
           CallAllPaths(query.src, query.dst, query.max_depth, order)
    \/ \E order \in LateralOrders : CallDetect(order)
    \/ StepSearch

SpecSearch == InitSearch /\ [][NextSearch]_vars

\* the searches under the detector of hop_threshold 2 that has learned no
\* baseline; a call that has begun keeps running: the caller waits for its return
NextReturn ==
    \/ \E edge \in LaterEdges(edges) : AddEdge(edge, MaxLateralEdges)
    \/ \E node \in LateralNodes : AddNode(node.node_id, node.node_type, node.privilege)
    \/ \E query \in PathQueries, order \in LateralOrders :
           CallShortestPath(query.src, query.dst, order)
    \/ \E query \in PathQueries, order \in LateralOrders :
           CallAllPaths(query.src, query.dst, query.max_depth, order)
    \/ \E order \in LateralOrders : CallDetect(order)
    \/ StepSearch

SpecReturn == InitGraph /\ [][NextReturn]_vars /\ WF_vars(StepSearch)

\* the segment manager: segments created, members added, communication allowed
\* and asked about
NextSegments ==
    \/ \E segment_id \in SegmentIds : CreateSegment(segment_id)
    \/ \E segment_id \in SegmentIds, member \in Members \ {"x"} : AddMember(segment_id, member)
    \/ \E from_seg \in SegmentIds : \E to_seg \in SegmentIds \ {from_seg}, ports \in PortLists :
           AllowCommunication(from_seg, to_seg, ports)
    \/ \E src_member \in Members, dst_member \in Members, port \in Ports :
           IsAllowed(src_member, dst_member, port)

SpecSegments == InitGraph /\ [][NextSegments]_vars

\* the segment manager's isolation score: segments created and re-created,
\* communication allowed between any two segments, a segment and itself included
NextIsolation ==
    \/ \E segment_id \in SegmentIds : CreateSegment(segment_id)
    \/ \E segment_id \in SegmentIds : AddMember(segment_id, "w1")
    \/ \E from_seg \in SegmentIds, to_seg \in SegmentIds :
           AllowCommunication(from_seg, to_seg, {})
    \/ IsolationScore

SpecIsolation == InitGraph /\ [][NextIsolation]_vars

\* the session analyzer: sessions started, ended and cleaned up
NextSessions ==
    \/ \E session_id \in SessionNames, entity_id \in SessionEntities :
           StartSession(session_id, entity_id)
    \/ \E session_id \in SessionNames : EndSession(session_id)
    \/ \E max_age \in MaxAges : CleanupExpired(max_age)

SpecSessions == InitGraph /\ [][NextSessions]_vars

\* the policy engine's conflict report: policies added, replaced and removed
NextConflicts ==
    \/ \E policy \in ConflictPool : AddPolicy(policy)
    \/ \E policy_id \in PolicyIds : RemovePolicy(policy_id)
    \/ DetectConflicts

SpecConflicts == InitGraph /\ [][NextConflicts]_vars

\* the detector over the store: one entity observed, it and a stranger analyzed
InitDetector ==
    /\ InitAccess
    /\ ctxIn = IdleContext
    /\ InitBaseline
    /\ InitPolicy
    /\ InitRest
    /\ threshold \in Thresholds

NextDetector ==
    \/ \E event \in ObserveEvents : Observe("alice", event)
    \/ \E events \in Batches : ObserveBatch("alice", events)
    \/ DecayProfiles
    \/ \E e \in {"alice", Stranger}, event \in AnalyzeEvents : AnalyzeEvent(e, event)

SpecDetector == InitDetector /\ [][NextDetector]_vars

\* the policy engine: policies added, replaced and removed, requests evaluated
InitPolicyEngine ==
    /\ InitAccess
    /\ ctxIn = IdleContext
    /\ InitBaseline
    /\ threshold = 7000
    /\ InitPolicy
    /\ InitRest

NextPolicyEngine ==
    \/ \E policy \in PolicyPool : AddPolicy(policy)
    \/ \E policy_id \in PolicyIds : RemovePolicy(policy_id)
    \/ \E context \in PolicyContexts : EvaluatePolicy(context)
    \/ ExportThenLoad

SpecPolicy == InitPolicyEngine /\ [][NextPolicyEngine]_vars

-----------------------------------------------------------------------------
(* Properties of the access engine and the verifier *)

\* the order of strictness the specification gives: ALLOW < RESTRICT < CHALLENGE < DENY
Rank(d) ==
    CASE d = ALLOW     -> 0
      [] d = RESTRICT  -> 1
      [] d = CHALLENGE -> 2
      [] d = DENY      -> 3

\* a step is a reverify of the session stored under k when it raises the
\* verification count of that session by one
IsReverifyOf(k) ==
    /\ k \in DOMAIN states
    /\ k \in DOMAIN states'
    /\ states'[k].verification_count = states[k].verification_count + 1

\* C1: a reverify on a session that has state increments escalation_count and
\* reports escalated = true exactly when the new decision is stricter than the
\* previous current decision under ALLOW < RESTRICT < CHALLENGE < DENY, and
\* otherwise leaves escalation_count unchanged and reports escalated = false.
C1_EscalatedIffStricter ==
    [][\A k \in DOMAIN states :
          IsReverifyOf(k) =>
             LET stricter == Rank(states'[k].current_decision)
                               > Rank(states[k].current_decision)
             IN  /\ accessRet'.op = "reverify"
                 /\ accessRet'.escalated = stricter
                 /\ states'[k].escalation_count =
                       states[k].escalation_count + (IF stricter THEN 1 ELSE 0)]_vars

\* the thresholds of the specification at sensitivity s, cross-multiplied:
\* trust < base * (1 + tenths/10 * s)
ClaimBelow(trust, base, tenths, s) ==
    trust * 100000 < base * (100000 + tenths * s)

\* C3: every evaluation computes a trust score in [0, 1] and decides DENY iff
\* trust < 0.3(1 + 0.5s), CHALLENGE iff 0.3(1 + 0.5s) <= trust < 0.5(1 + 0.3s),
\* RESTRICT iff 0.5(1 + 0.3s) <= trust < 0.7(1 + 0.2s) and ALLOW otherwise,
\* s being the sensitivity of the resource; the decision is one of the four kinds.
C3_DecisionMatchesThresholds ==
    \A i \in 1 .. Len(decision_log) :
        LET h == evalHistory[i]
            t == _calculate_trust_score(h.ctx)
            s == SensitivityOf(h.sens, h.ctx.resource)
            d == decision_log[i].decision
        IN  /\ i <= Len(evalHistory)
            /\ t \in 0 .. Scale
            /\ decision_log[i].risk_level = Scale - t
            /\ d \in Decision
            /\ (d = DENY) <=> ClaimBelow(t, 3000, 5, s)
            /\ (d = CHALLENGE) <=> (~ClaimBelow(t, 3000, 5, s) /\ ClaimBelow(t, 5000, 3, s))
            /\ (d = RESTRICT) <=> (~ClaimBelow(t, 5000, 3, s) /\ ClaimBelow(t, 7000, 2, s))
            /\ (d = ALLOW) <=> ~ClaimBelow(t, 7000, 2, s)

\* an evaluation whose trust score sits exactly on the effective deny threshold
\* was decided CHALLENGE, and one on the restrict threshold ALLOW
C3_Witness ==
    \E i \in 1 .. Len(decision_log) :
        LET h == evalHistory[i]
            t == Scale - decision_log[i].risk_level
            s == SensitivityOf(h.sens, h.ctx.resource)
        IN  \/ /\ t * 100000 = 3000 * (100000 + 5 * s)
               /\ decision_log[i].decision = CHALLENGE
            \/ /\ t * 100000 = 7000 * (100000 + 2 * s)
               /\ decision_log[i].decision = ALLOW
               /\ h.set

\* C4: for one context and two levels s1 <= s2 set on its resource with
\* set_resource_sensitivity, the decision at s2 is no less strict than at s1.
C4_SensitivityMonotone ==
    \A i, j \in 1 .. Len(decision_log) :
        (/\ evalHistory[i].ctx = evalHistory[j].ctx
         /\ evalHistory[i].set
         /\ evalHistory[j].set
         /\ evalHistory[i].level <= evalHistory[j].level)
        => Rank(decision_log[i].decision) <= Rank(decision_log[j].decision)

\* the same context was evaluated at two levels, and the higher level gave a
\* strictly stricter decision
C4_Witness ==
    \E i, j \in 1 .. Len(decision_log) :
        /\ evalHistory[i].ctx = evalHistory[j].ctx
        /\ evalHistory[i].set
        /\ evalHistory[j].set
        /\ evalHistory[i].level < evalHistory[j].level
        /\ Rank(decision_log[i].decision) < Rank(decision_log[j].decision)

\* the log holds, entry for entry, the results of the evaluations made
LogMatchesHistory ==
    /\ Len(decision_log) = Len(evalHistory)
    /\ \A i \in 1 .. Len(decision_log) :
          decision_log[i] = MakeDecision(evalHistory[i].ctx, evalHistory[i].sens)

\* a step keeps every entry the log holds, in place
LogOnlyGrows ==
    /\ Len(decision_log') >= Len(decision_log)
    /\ \A i \in 1 .. Len(decision_log) : decision_log'[i] = decision_log[i]

\* C8: the decision log holds exactly one entry per evaluation (evaluate,
\* initialize_session, reverify), in call order, and no entry is ever changed
\* or removed.
C8_LogInCallOrder == [](LogMatchesHistory) /\ [][LogOnlyGrows]_vars

\* three evaluations were logged, one of them a reverify, with differing results
C8_Witness ==
    /\ Len(decision_log) >= 3
    /\ decision_log[1].decision # decision_log[3].decision
    /\ decision_log[1].entity_id # decision_log[2].entity_id
    /\ \E k \in DOMAIN states : states[k].verification_count >= 1

\* C9: recent_decisions(n) returns the last n decisions in call order, for every
\* n >= 0: min(n, length of the log) entries, so none for n = 0.
C9_LastNDecisions ==
    accessRet.op = "recent_decisions" =>
        LET len == Len(decision_log)
            m   == Min(accessRet.n, len)
        IN  /\ Len(accessRet.decisions) = m
            /\ accessRet.decisions = SubSeq(decision_log, len - m + 1, len)
-----------------------------------------------------------------------------
(* Properties of the baseline store and the anomaly detector *)

\* C2: after N observe calls for an entity, interleaved in any way with observe
\* calls for other entities and with decay_profiles, its observation_count is N
\* (and an entity never observed has no profile).
C2_ObservationCount ==
    \A e \in DOMAIN observed :
        IF e \in DOMAIN profiles
        THEN profiles[e].observation_count = observed[e]
        ELSE observed[e] = 0

\* both entities were observed, one of them through a batch and single calls,
\* and the profiles were decayed
C2_Witness ==
    /\ DOMAIN profiles = Entities
    /\ profiles["alice"].observation_count = BatchSize + 1
    /\ observed["bob"] >= 1
    /\ decays >= 1

HourSum(profile) == SumMap(profile.hour_distribution)

DowSum(profile) == SumMap(profile.dow_distribution)

\* C7: analyze returns score 0.5, is_anomalous = false and reason
\* "insufficient_baseline" whenever the entity has no profile or fewer than 10
\* observations, whatever the event and the threshold.
C7_NeutralWhenUnderBaselined ==
    (/\ baselineRet.op = "analyze"
     /\ \/ baselineRet.entity_id \notin DOMAIN profiles
        \/ profiles[baselineRet.entity_id].observation_count < 10)
    => /\ baselineRet.raised = "none"
       /\ baselineRet.anomaly_score = 5000
       /\ baselineRet.is_anomalous = FALSE
       /\ baselineRet.reason = "insufficient_baseline"

\* an entity with 9 observations was analyzed by a detector whose threshold is
\* not above 0.5, and got the neutral result
C7_Witness ==
    /\ baselineRet.op = "analyze"
    /\ baselineRet.entity_id \in DOMAIN profiles
    /\ profiles[baselineRet.entity_id].observation_count = 9
    /\ threshold <= 5000
    /\ baselineRet.reason = "insufficient_baseline"

-----------------------------------------------------------------------------
(* Properties of the policy engine *)

\* the last call was evaluate
Evaluated == policyRet # NoReturn /\ policyRet.op = "evaluate"

\* rule j of policy i is enabled, in an enabled policy, and every condition holds
Matching(i, j, context) ==
    /\ policies[i].enabled
    /\ policies[i].rules[j].enabled
    /\ \A k \in 1 .. Len(policies[i].rules[j].conditions) :
           ConditionEvaluate(policies[i].rules[j].conditions[k], context)

\* the positions of the rules matching the context
MatchingRules(context) ==
    { p \in UNION { {<<i, j>> : j \in 1 .. Len(policies[i].rules)} : i \in 1 .. Len(policies) } :
        Matching(p[1], p[2], context) }

DefaultDeny ==
    [decision |-> "deny", reason |-> "no_matching_policy", default_deny |-> TRUE]

\* C5: evaluate returns decision "deny" with default_deny true and reason
\* "no_matching_policy" whenever no enabled rule of an enabled policy matches
\* the context.
C5_DefaultDeny ==
    (Evaluated /\ MatchingRules(policyRet.context) = {})
        => policyRet.result = DefaultDeny

\* a default deny from a store that holds a disabled rule, or a rule of a disabled
\* policy, whose conditions all hold, and a rule that needs a field the context lacks
C5_Witness ==
    /\ Evaluated
    /\ policyRet.result = DefaultDeny
    /\ \E i \in 1 .. Len(policies) : \E j \in 1 .. Len(policies[i].rules) :
           /\ ~(policies[i].enabled /\ policies[i].rules[j].enabled)
           /\ AllConditions(policies[i].rules[j], policyRet.context)
    /\ \E i \in 1 .. Len(policies) : \E j \in 1 .. Len(policies[i].rules) :
           /\ policies[i].enabled /\ policies[i].rules[j].enabled
           /\ \E k \in 1 .. Len(policies[i].rules[j].conditions) :
                  policies[i].rules[j].conditions[k].field \notin DOMAIN policyRet.context

\* the conditions of the rules in the store
StoredConditions ==
    UNION { UNION { {policies[i].rules[j].conditions[k] :
                        k \in 1 .. Len(policies[i].rules[j].conditions)} :
                    j \in 1 .. Len(policies[i].rules)} :
            i \in 1 .. Len(policies) }

\* C16: a condition whose operator is gt, lt, gte or lte evaluates to false, and
\* never raises, whenever the context value or the condition value is not
\* numeric, also when both are strings.
C16_OrderingOnNonNumbersIsFalse ==
    Evaluated =>
        \A cond \in StoredConditions :
            (/\ cond.operator \in {"gt", "lt", "gte", "lte"}
             /\ cond.field \in DOMAIN policyRet.context
             /\ (policyRet.context[cond.field].t # "int" \/ cond.value.t # "int"))
                => ~ConditionEvaluate(cond, policyRet.context)

\* the ids of a store, as a set
StoreIds(store) == {store[i].policy_id : i \in 1 .. Len(store)}

\* the policy a store holds under an id
Lookup(store, policy_id) == store[PolicyIndex(store, policy_id)]

\* C17: exporting a store and importing the export into an empty engine yields
\* an equivalent store: the same policy ids, under each id the same name, enabled
\* flag and ordered rules (rule_id, effect, priority, enabled flag, conditions),
\* and the same evaluate result on both stores for every context.
C17_ExportImportRoundTrip ==
    policyRet.op = "export_load" =>
        /\ policyRet.raised = "none"
        /\ StoreIds(policyRet.imported) = StoreIds(policies)
        /\ \A id \in StoreIds(policies) :
               /\ Lookup(policyRet.imported, id).name = Lookup(policies, id).name
               /\ Lookup(policyRet.imported, id).enabled = Lookup(policies, id).enabled
               /\ Lookup(policyRet.imported, id).rules = Lookup(policies, id).rules
        /\ \A context \in PolicyContexts :
               PolicyEvaluate(policyRet.imported, context) = PolicyEvaluate(policies, context)

\* p comes no later than q: smaller priority, or the same priority and an earlier
\* policy, or the same policy and an earlier rule
Precedes(p, q) ==
    LET pp == policies[p[1]].rules[p[2]].priority
        qp == policies[q[1]].rules[q[2]].priority
    IN  \/ pp < qp
        \/ pp = qp /\ (p[1] < q[1] \/ (p[1] = q[1] /\ p[2] <= q[2]))

\* C6: when at least one rule matches, evaluate returns the effect and rule_id of
\* the matching rule with the smallest priority number; among several of that
\* priority the winner is the first in policy insertion order, then rule order.
C6_LowestPriorityFirstInserted ==
    (Evaluated /\ MatchingRules(policyRet.context) # {}) =>
        \E p \in MatchingRules(policyRet.context) :
            /\ \A q \in MatchingRules(policyRet.context) : Precedes(p, q)
            /\ policyRet.result.decision = policies[p[1]].rules[p[2]].effect
            /\ policyRet.result.rule_id = policies[p[1]].rules[p[2]].rule_id
            /\ policyRet.result.policy_id = policies[p[1]].policy_id

\* three rules match, two of them tie at the smallest priority in different
\* policies, and a rule of a larger priority stands before the winner
C6_Witness ==
    /\ Evaluated
    /\ Cardinality(MatchingRules(policyRet.context)) >= 3
    /\ \E p, q \in MatchingRules(policyRet.context) :
           /\ p[1] < q[1]
           /\ policies[p[1]].rules[p[2]].priority = policyRet.result.priority
           /\ policies[q[1]].rules[q[2]].priority = policyRet.result.priority
           /\ policyRet.result.rule_id = policies[p[1]].rules[p[2]].rule_id
           /\ policyRet.result.rule_id # policies[q[1]].rules[q[2]].rule_id
    /\ \E p \in MatchingRules(policyRet.context) :
           /\ policies[p[1]].rules[p[2]].priority > policyRet.result.priority
           /\ p[1] = 1

-----------------------------------------------------------------------------
(* Properties of observe on malformed events *)

\* C11: observe never raises on bad event data: whatever the event holds (a field
\* out of range, a str in place of a number, an unknown key), the call returns
\* normally.
C11_ObserveNeverRaises ==
    baselineRet.op \in {"observe", "observe_batch"} => baselineRet.raised = "none"

-----------------------------------------------------------------------------
(* Properties of concurrent observe calls *)

\* C12: writers to the baseline store are serialized, so no update is lost: once
\* all N concurrent observe calls for one entity have returned, the store holds
\* one profile for it, created once, whose observation_count is N and whose
\* resource total is the number of events that carried a resource.
C12_NoLostUpdate ==
    (\A t \in Threads : thread[t].pc = "done") =>
        /\ slot # 0
        /\ Len(heap) = 1
        /\ heap[slot].observation_count = NumThreads
        /\ heap[slot].resource_count = Cardinality({t \in Threads : thread[t].resource})

-----------------------------------------------------------------------------
(* Properties of the verifier's session states *)

\* the step is an initialize_session or a reverify for the pair p
ActsOnPair(p) ==
    /\ states' # states
    /\ Len(evalHistory') = Len(evalHistory) + 1
    /\ evalHistory'[Len(evalHistory')].ctx.entity_id = p[1]
    /\ evalHistory'[Len(evalHistory')].ctx.session_id = p[2]

\* C13: each distinct (entity_id, session_id) pair has its own verification
\* state: initialize_session or reverify for one pair leaves the state of every
\* other pair as it was, also for identifiers that contain a colon.
C13_OtherPairsUntouched ==
    [][\A p \in SessionIds : \A q \in SessionIds \ {p} :
          ActsOnPair(p) =>
              get_state(states', q[1], q[2]) = get_state(states, q[1], q[2])]_vars

-----------------------------------------------------------------------------
(* Properties of the risk engine *)

\* every score the engine has returned or stored
RiskResults ==
    (IF riskRet.op = "calculate" THEN {riskRet.result} ELSE {})
    \cup UNION { {risk_history[e][i] : i \in 1 .. Len(risk_history[e])} :
                    e \in DOMAIN risk_history }

\* C14: for all inputs to calculate (scores outside [0,1] included), with the
\* default weights and thresholds, composite_score lies in [0,1] and risk_level is
\* "critical" iff composite >= 0.9, "high" iff 0.7 <= composite < 0.9, "medium"
\* iff 0.5 <= composite < 0.7, and "low" otherwise.
C14_CompositeInRangeLevelConsistent ==
    \A r \in RiskResults :
        /\ 0 <= r.composite_score /\ r.composite_score <= 10000
        /\ (r.risk_level = "critical") <=> (r.composite_score >= 9000)
        /\ (r.risk_level = "high") <=>
               (7000 <= r.composite_score /\ r.composite_score < 9000)
        /\ (r.risk_level = "medium") <=>
               (5000 <= r.composite_score /\ r.composite_score < 7000)
        /\ (r.risk_level = "low") <=> (r.composite_score < 5000)

\* two scores for one entity after new intelligence: the first on a threshold
\* from signals outside [0,1], the second clamped to 1
C14_Witness ==
    /\ riskRet.op = "calculate"
    /\ riskIn.behavior_score > 10000
    /\ \E e \in DOMAIN risk_history :
           /\ Len(risk_history[e]) = 2
           /\ risk_history[e][1].composite_score \in {5000, 7000, 9000}
           /\ risk_history[e][2].composite_score = 10000
           /\ risk_history[e][2].risk_level = "critical"

-----------------------------------------------------------------------------
(* Properties of analyze on arbitrary events *)

\* C15: analyze returns, for every entity and every event under the default
\* weights, a result whose anomaly_score lies in [0,1], for every combination of
\* present fields and every hour value, an hour outside 0..23 included.
C15_ScoreInUnitInterval ==
    baselineRet.op = "analyze" =>
        /\ baselineRet.raised = "none"
        /\ 0 <= baselineRet.anomaly_score
        /\ baselineRet.anomaly_score <= 10000

-----------------------------------------------------------------------------
(* Properties of the access graph *)

\* the nodes a walk of at most k directed edges from src ends at
RECURSIVE Within(_, _, _)
Within(log, src, k) ==
    IF k = 0 THEN {src}
    ELSE LET near == Within(log, src, k - 1)
         IN  near \cup {log[i].dst : i \in {j \in 1 .. Len(log) : log[j].src \in near}}

Reachable(log, src, dst) == dst \in Within(log, src, Cardinality(GraphNodes))

\* the fewest edges of a walk from src to dst
Distance(log, src, dst) ==
    CHOOSE k \in 0 .. Cardinality(GraphNodes) :
        /\ dst \in Within(log, src, k)
        /\ \A j \in 0 .. k - 1 : dst \notin Within(log, src, j)

\* path is a walk of the graph from src to dst
IsWalk(log, path, src, dst) ==
    /\ path # <<>>
    /\ path[1] = src
    /\ path[Len(path)] = dst
    /\ \A i \in 1 .. Len(path) - 1 :
          \E j \in 1 .. Len(log) : log[j].src = path[i] /\ log[j].dst = path[i + 1]

\* C18: shortest_path(a, a) is [a]; for a # b the result is None exactly when
\* b cannot be reached from a along directed edges, and otherwise a path from a
\* to b whose consecutive nodes are joined by an edge and which has the fewest
\* edges of any such path
C18_ShortestPath ==
    lateralRet.op = "shortest_path" =>
        IF lateralRet.src = lateralRet.dst THEN lateralRet.path = <<lateralRet.src>>
        ELSE /\ (lateralRet.path = <<>>) <=> ~Reachable(edges, lateralRet.src, lateralRet.dst)
             /\ lateralRet.path # <<>> =>
                   /\ IsWalk(edges, lateralRet.path, lateralRet.src, lateralRet.dst)
                   /\ Len(lateralRet.path) - 1 = Distance(edges, lateralRet.src, lateralRet.dst)

\* a to d asked in a graph holding both the chain and the shortcut: the answer
\* takes the shortcut
C18_Witness ==
    /\ lateralRet.op = "shortest_path"
    /\ lateralRet.src = "a" /\ lateralRet.dst = "d"
    /\ \E i \in 1 .. Len(edges) : edges[i] = AccessEdge("a", "b", 0)
    /\ \E i \in 1 .. Len(edges) : edges[i] = AccessEdge("b", "c", 0)
    /\ lateralRet.path = <<"a", "c", "d">>

\* a node asked for that no edge leads to: None
C18_WitnessNone ==
    /\ lateralRet.op = "shortest_path"
    /\ lateralRet.src = "b" /\ lateralRet.dst = "a"
    /\ Len(edges) = MaxGraphEdges
    /\ lateralRet.path = <<>>

-----------------------------------------------------------------------------
(* Properties of credential-hopping detection *)

\* the distinct targets of a source in the edge log
DistinctTargets(log, src) == {log[i].dst : i \in {j \in 1 .. Len(log) : log[j].src = src}}

\* the places of the edges from src to dst
EdgesTo(log, src, dst) == {i \in 1 .. Len(log) : log[i].src = src /\ log[i].dst = dst}

\* the earliest timestamp of an edge from src to dst
Earliest(log, src, dst) ==
    CHOOSE ts \in {log[i].timestamp : i \in EdgesTo(log, src, dst)} :
        \A i \in EdgesTo(log, src, dst) : ts <= log[i].timestamp

\* the place of the first edge from src to dst that carries the earliest timestamp
FirstAt(log, src, dst) ==
    CHOOSE i \in EdgesTo(log, src, dst) :
        /\ log[i].timestamp = Earliest(log, src, dst)
        /\ \A j \in EdgesTo(log, src, dst) :
              log[j].timestamp = Earliest(log, src, dst) => i <= j

\* target t comes before target u: earlier earliest timestamp, and between equal
\* timestamps the edge logged first
EarlierTarget(log, src, t, u) ==
    \/ Earliest(log, src, t) < Earliest(log, src, u)
    \/ /\ Earliest(log, src, t) = Earliest(log, src, u)
       /\ FirstAt(log, src, t) < FirstAt(log, src, u)

\* path is the source followed by the first count of its distinct targets in
\* order of their earliest edge timestamp
SourceThenEarliest(log, path, src, count) ==
    /\ Len(path) = count + 1
    /\ path[1] = src
    /\ \A i \in 2 .. Len(path) : path[i] \in DistinctTargets(log, src)
    /\ \A i \in 2 .. Len(path) - 1 : EarlierTarget(log, src, path[i], path[i + 1])
    /\ \A u \in DistinctTargets(log, src) \ {path[i] : i \in 2 .. Len(path)} :
          EarlierTarget(log, src, path[Len(path)], u)

\* every node named in the log
LogNodes(log) == {log[i].src : i \in 1 .. Len(log)} \cup {log[i].dst : i \in 1 .. Len(log)}

\* one alert for each source with at least hop_threshold distinct targets, none
\* for any other node, and hop_count the number of distinct targets
OneAlertPerHoppingSource(log, alerts) ==
    /\ \A src \in LogNodes(log) :
          Cardinality({i \in 1 .. Len(alerts) : alerts[i].details.source = src})
              = IF Cardinality(DistinctTargets(log, src)) >= hop_threshold THEN 1 ELSE 0
    /\ \A i \in 1 .. Len(alerts) :
          /\ alerts[i].alert_type = "credential_hopping"
          /\ alerts[i].details.source \in LogNodes(log)
          /\ alerts[i].details.hop_count
                = Cardinality(DistinctTargets(log, alerts[i].details.source))

\* C19 as stated: one alert for each source with at least hop_threshold distinct
\* targets and none for any other; the path is the source followed by all of its
\* distinct targets in order of their earliest edge timestamp, and hop_count is
\* the number of distinct targets
C19_PathHoldsAllTargets ==
    lateralRet.op = "detect_credential_hopping" =>
        /\ OneAlertPerHoppingSource(edges, lateralRet.alerts)
        /\ \A i \in 1 .. Len(lateralRet.alerts) :
              LET src == lateralRet.alerts[i].details.source
              IN  SourceThenEarliest(edges, lateralRet.alerts[i].path, src,
                                     Cardinality(DistinctTargets(edges, src)))

\* C19, amended: one alert for each source with at least hop_threshold distinct
\* targets and none for any other; the path is the source followed by the first
\* hop_threshold + 2 of its distinct targets in order of their earliest edge
\* timestamp (equal timestamps in log order), and hop_count is the number of all
\* distinct targets
C19_PathHoldsFirstTargets ==
    lateralRet.op = "detect_credential_hopping" =>
        /\ OneAlertPerHoppingSource(edges, lateralRet.alerts)
        /\ \A i \in 1 .. Len(lateralRet.alerts) :
              LET src == lateralRet.alerts[i].details.source
              IN  SourceThenEarliest(edges, lateralRet.alerts[i].path, src,
                                     Min(Cardinality(DistinctTargets(edges, src)),
                                         hop_threshold + 2))

\* a source with more than hop_threshold + 2 distinct targets, logged out of time
\* order: its alert counts them all and its path stops after hop_threshold + 2
C19_Witness ==
    /\ lateralRet.op = "detect_credential_hopping"
    /\ \E i \in 1 .. Len(lateralRet.alerts) :
          /\ lateralRet.alerts[i].details.hop_count > hop_threshold + 2
          /\ Len(lateralRet.alerts[i].path) = hop_threshold + 3
    /\ \E i \in 1 .. Len(edges) - 1 : edges[i].timestamp > edges[i + 1].timestamp

-----------------------------------------------------------------------------
(* Properties of the segment manager *)

\* the segments a member belongs to
SegmentsOf(member) == {i \in 1 .. Len(segments) : member \in segments[i].members}

\* C20: is_allowed(a, b, port) is true only if both endpoints belong to known
\* segments and either they are in the same segment, or the destination's
\* segment is in the source segment's allowed_outbound_segments and, whenever
\* the destination segment has any allowed_ports defined, port is one of them,
\* for every port value including the default 0
C20_AllowedOnlyOnListedPort ==
    (segRet.op = "is_allowed" /\ segRet.result) =>
        \E s \in SegmentsOf(segRet.src_member), d \in SegmentsOf(segRet.dst_member) :
            \/ s = d
            \/ /\ segments[d].segment_id \in segments[s].allowed_outbound_segments
               /\ segments[d].allowed_ports # {} => segRet.port \in segments[d].allowed_ports

-----------------------------------------------------------------------------
(* Properties of the trust trend *)

\* the last 3 points of a history, or all of them when fewer exist
LastThree(history) ==
    [i \in 1 .. Min(3, Len(history)) |-> history[Len(history) - Min(3, Len(history)) + i]]

\* the sessions that have a state
KnownSessions == {p \in SessionIds : get_state(states, p[1], p[2]).found}

\* C21 as stated: the trend compares the mean of the last 3 trust-history
\* points (or of all points when fewer exist) to the earliest of them: below
\* -0.1 is "degrading", above 0.1 is "improving", anything else, a history of
\* fewer than 2 points included, is "stable"
C21_TrendComparesMean ==
    \A p \in KnownSessions :
        LET recent == LastThree(states[SessionKey(p[1], p[2])].trust_history)
            excess == SumSeq(recent) - Len(recent) * recent[1]
        IN  get_state(states, p[1], p[2]).trust_trend
                = IF Len(recent) >= 2 /\ excess < -1000 * Len(recent) THEN "degrading"
                  ELSE IF Len(recent) >= 2 /\ excess > 1000 * Len(recent) THEN "improving"
                  ELSE "stable"

\* C21, amended: the trend compares the latest of the last 3 trust-history
\* points (or of all points when fewer exist) to the earliest of them: a
\* difference below -0.1 is "degrading", above 0.1 is "improving", anything
\* else, a history of fewer than 2 points included, is "stable"
C21_TrendComparesLatest ==
    \A p \in KnownSessions :
        LET recent == LastThree(states[SessionKey(p[1], p[2])].trust_history)
            delta  == recent[Len(recent)] - recent[1]
        IN  get_state(states, p[1], p[2]).trust_trend
                = IF Len(recent) >= 2 /\ delta < -1000 THEN "degrading"
                  ELSE IF Len(recent) >= 2 /\ delta > 1000 THEN "improving"
                  ELSE "stable"

\* a reverify has just reported a trend over three points whose latest lies
\* more than 0.1 from the earliest while their mean does not
C21_Witness ==
    /\ accessRet.op = "reverify"
    /\ \E p \in KnownSessions :
          LET history == states[SessionKey(p[1], p[2])].trust_history
          IN  /\ Len(history) = 3
              /\ accessRet.trust_trend = get_state(states, p[1], p[2]).trust_trend
              /\ accessRet.trust_trend # "stable"
              /\ Abs(SumSeq(history) - 3 * history[1]) <= 3000

-----------------------------------------------------------------------------
(* Properties of the duration component *)

\* the last call was an analyze that scored its event
Scored == /\ baselineRet.op = "analyze" /\ baselineRet.raised = "none"
          /\ baselineRet.reason = "none"

\* the weighted average of the component scores over the keys given
AverageOver(scores, keys) ==
    IF keys = {} THEN 0
    ELSE RoundDiv(SumOver([k \in keys |-> scores[k] * Weight(k)], keys),
                  SumOver([k \in keys |-> Weight(k)], keys))

\* the analyzed event carried session_duration and the profile has fewer than
\* 5 timed sessions
DurationUnderSampled ==
    /\ Scored
    /\ "duration" \in DOMAIN baselineRet.component_scores
    /\ profiles[baselineRet.entity_id].session_count < MinSessions

\* C22: when the profile's session_count is below 5 the duration component is
\* skipped: the composite anomaly_score of an event carrying session_duration
\* is that of the same event without it, the weighted average of the other
\* components, and the duration weight does not enter the average
C22_DurationSkippedWhenUnderSampled ==
    DurationUnderSampled =>
        baselineRet.anomaly_score
            = AverageOver(baselineRet.component_scores,
                          DOMAIN baselineRet.component_scores \ {"duration"})

-----------------------------------------------------------------------------
(* Properties of the isolation score *)

\* C23: after any sequence of create_segment, add_member and
\* allow_communication calls, allow_communication from a segment to itself and
\* re-creating an existing segment id included, isolation_score() lies in [0,1]
C23_IsolationScoreInUnitInterval ==
    segRet.op = "isolation_score" => 0 <= segRet.result /\ segRet.result <= Scale

-----------------------------------------------------------------------------
(* Properties of the session analyzer *)

\* the sessions of an entity that are currently active
ActiveSessionsOf(sess, entity_id) ==
    {sid \in DOMAIN sess : sess[sid].entity_id = entity_id /\ sess[sid].is_active}

\* C24: start_session(sid, entity) returns concurrent_count = 1 + the number of
\* sessions of that entity that are active at the call, and reports
\* "excessive_concurrent_sessions" exactly when that number is at least
\* max_concurrent, after any sequence of start_session, end_session and
\* cleanup_expired calls
C24_ConcurrentCountIsActiveSessions ==
    [][sessRet'.op = "start_session" =>
          LET active == Cardinality(ActiveSessionsOf(sessions, sessRet'.entity_id))
          IN  /\ sessRet'.concurrent_count = 1 + active
              /\ (\E i \in 1 .. Len(sessRet'.risks) :
                      sessRet'.risks[i] = "excessive_concurrent_sessions")
                  <=> active >= max_concurrent]_vars

-----------------------------------------------------------------------------
(* Properties of the anomaly flag *)

\* C25: in every AnomalyResult that is not an insufficient-baseline result,
\* is_anomalous is true exactly when the reported anomaly_score is at least
\* the configured threshold
C25_FlagMatchesReportedScore ==
    Scored => (baselineRet.is_anomalous <=> baselineRet.anomaly_score >= threshold)

-----------------------------------------------------------------------------
(* Properties of the resource component *)

\* the last analyze scored a resource the entity has never been observed on
NovelResourceScored ==
    /\ Scored
    /\ "resource" \in DOMAIN baselineRet.details
    /\ MapGet(profiles[baselineRet.entity_id].resource_frequencies,
              baselineRet.details.resource.resource) = 0

\* the number of distinct resources seen so far
UniqueResources == Cardinality(DOMAIN profiles[baselineRet.entity_id].resource_frequencies)

\* C26 as stated: for a profile with observation_count >= 10 the resource
\* component of a never-observed resource is max(0.6, 1 - u/100), u the number
\* of distinct resources seen so far, also when u = 0, so never below 0.6
C26_NovelResourceAtLeastSixTenths ==
    NovelResourceScored =>
        /\ baselineRet.component_scores.resource = Max(6000, Scale - UniqueResources * 100)
        /\ baselineRet.component_scores.resource >= 6000

\* C26, amended: for a profile with observation_count >= 10 the resource
\* component of a never-observed resource is max(0.6, 1 - u/100) when the
\* profile has seen at least one resource, and the neutral 0.5 when the
\* observed resource counts sum to zero (no observed event carried a resource)
C26_NovelResourceOrNeutral ==
    NovelResourceScored =>
        baselineRet.component_scores.resource
            = IF SumMap(profiles[baselineRet.entity_id].resource_frequencies) = 0 THEN 5000
              ELSE Max(6000, Scale - UniqueResources * 100)

\* a never-observed resource scored against a profile that has seen one
C26_Witness ==
    /\ NovelResourceScored
    /\ UniqueResources >= 1
    /\ baselineRet.component_scores.resource = Scale - UniqueResources * 100

-----------------------------------------------------------------------------
(* Properties of detect_conflicts *)

\* the rules of the store by place: <<place of the policy, place of the rule>>
RulePlaces ==
    {pl \in (1 .. Len(policies)) \X (1 .. 3) : pl[2] <= Len(policies[pl[1]].rules)}

RuleAt(pl) == policies[pl[1]].rules[pl[2]]

\* both rules constrain the field with eq, to different values
EqToDifferentValues(r1, r2, field) ==
    \E i \in 1 .. Len(r1.conditions), j \in 1 .. Len(r2.conditions) :
        /\ r1.conditions[i].field = field /\ r2.conditions[j].field = field
        /\ r1.conditions[i].operator = "eq" /\ r2.conditions[j].operator = "eq"
        /\ r1.conditions[i].value # r2.conditions[j].value

\* the pair of rules at two places is a conflict
Conflicting(pl1, pl2) ==
    /\ RuleAt(pl1).enabled /\ RuleAt(pl2).enabled
    /\ policies[pl1[1]].enabled /\ policies[pl2[1]].enabled
    /\ RuleAt(pl1).effect # RuleAt(pl2).effect
    /\ \A field \in {"x", "zone", "risk"} : ~EqToDifferentValues(RuleAt(pl1), RuleAt(pl2), field)

\* the unordered pairs of different places that conflict
ConflictingPairs ==
    {pair \in SUBSET RulePlaces :
        /\ Cardinality(pair) = 2
        /\ \A pl1 \in pair, pl2 \in pair : pl1 # pl2 => Conflicting(pl1, pl2)}

\* the entry names the two rules of the pair, in either order
Names(entry, pair) ==
    \E pl1 \in pair, pl2 \in pair :
        /\ pl1 # pl2
        /\ entry.rule_1.policy_id = policies[pl1[1]].policy_id
        /\ entry.rule_1.rule_id = RuleAt(pl1).rule_id
        /\ entry.rule_2.policy_id = policies[pl2[1]].policy_id
        /\ entry.rule_2.rule_id = RuleAt(pl2).rule_id

\* C27: detect_conflicts reports an unordered pair of rules exactly when both
\* rules are enabled and belong to enabled policies, their effects differ, and
\* no field constrained by both has an eq condition in each with different
\* values; every such pair is reported exactly once, and rules with no shared
\* field always count as overlapping
C27_ConflictsAreOverlappingPairs ==
    policyRet.op = "detect_conflicts" =>
        /\ \A pair \in ConflictingPairs :
              Cardinality({i \in 1 .. Len(policyRet.conflicts) :
                              Names(policyRet.conflicts[i], pair)}) = 1
        /\ \A i \in 1 .. Len(policyRet.conflicts) :
              \E pair \in ConflictingPairs : Names(policyRet.conflicts[i], pair)

\* a report over a store that holds a conflict between rules without a shared
\* field, a pair kept apart by eq on a shared field, and a disabled rule
C27_Witness ==
    /\ policyRet.op = "detect_conflicts"
    /\ \E i \in 1 .. Len(policyRet.conflicts) :
          /\ policyRet.conflicts[i].rule_1.rule_id = "r2"
          /\ policyRet.conflicts[i].rule_2.rule_id = "r3"
    /\ \E pl1 \in RulePlaces, pl2 \in RulePlaces :
          /\ RuleAt(pl1).effect # RuleAt(pl2).effect
          /\ EqToDifferentValues(RuleAt(pl1), RuleAt(pl2), "x")
    /\ \E pl \in RulePlaces : ~RuleAt(pl).enabled

-----------------------------------------------------------------------------
(* Properties of detect and of the graph searches *)

\* the log holds an edge from src to dst
HasEdge(src, dst) == \E i \in 1 .. Len(edges) : edges[i].src = src /\ edges[i].dst = dst

\* C28: every alert detect returns has a severity in [0, 1]; a privilege
\* escalation alert has severity 0.6 + 0.1 x (nodes on its path) and its path
\* has at most 4 nodes
C28_SeverityInUnitInterval ==
    lateralRet.op = "detect" =>
        \A i \in 1 .. Len(lateralRet.alerts) :
            LET alert == lateralRet.alerts[i]
            IN  /\ 0 <= alert.severity /\ alert.severity <= Scale
                /\ alert.alert_type = "privilege_escalation" =>
                       /\ alert.severity = 6000 + 1000 * Len(alert.path)
                       /\ Len(alert.path) <= 4

\* detect returned an escalation alert of severity 1.0 on a graph that also
\* holds a path of five nodes from a low to the high node, next to a hopping
\* alert and an embedding alert
C28_Witness ==
    /\ lateralRet.op = "detect"
    /\ HasEdge("a", "b") /\ HasEdge("b", "c") /\ HasEdge("c", "e") /\ HasEdge("e", "d")
    /\ node_privilege["a"] < 3000 /\ node_privilege["d"] > 7000
    /\ \E i \in 1 .. Len(lateralRet.alerts) :
          /\ lateralRet.alerts[i].alert_type = "privilege_escalation"
          /\ lateralRet.alerts[i].severity = Scale
    /\ \E i \in 1 .. Len(lateralRet.alerts) :
          lateralRet.alerts[i].alert_type = "credential_hopping"
    /\ \E i \in 1 .. Len(lateralRet.alerts) :
          /\ lateralRet.alerts[i].alert_type = "embedding_anomaly"
          /\ lateralRet.alerts[i].severity = Scale

\* no node twice
IsSimple(path) == \A i \in 1 .. Len(path), j \in 1 .. Len(path) : path[i] = path[j] => i = j

\* what all_paths returned is simple paths from src to dst
SimplePathsReturned ==
    lateralRet.op = "all_paths" =>
        \A i \in 1 .. Len(lateralRet.paths) :
            LET path == lateralRet.paths[i]
            IN  /\ IsSimple(path)
                /\ path[1] = lateralRet.src
                /\ path[Len(path)] = lateralRet.dst
                /\ \A k \in 1 .. Len(path) - 1 : HasEdge(path[k], path[k + 1])

\* C29: every shortest_path, all_paths and detect call returns, on graphs with
\* cycles, self-loops and multi-edges too, and all_paths returns only simple
\* paths that start at src and end at dst
C29_SearchesReturn ==
    /\ (search # Idle) ~> (search = Idle)
    /\ []SimplePathsReturned

\* all_paths returned a path of four nodes on a graph with a cycle through it
C29_Witness ==
    /\ lateralRet.op = "all_paths"
    /\ \E i \in 1 .. Len(lateralRet.paths) : Len(lateralRet.paths[i]) = 4
    /\ HasEdge("c", "a")

-----------------------------------------------------------------------------
(* Properties of the verification counters *)

\* the counters of a verification state agree with its history
CountersAgree(state) ==
    /\ Len(state.trust_history) = state.verification_count + 1
    /\ 0 <= state.escalation_count
    /\ state.escalation_count <= state.verification_count

\* C30: after any sequence of initialize_session and reverify calls every
\* verification state has len(trust_history) = verification_count + 1 and
\* 0 <= escalation_count <= verification_count; a call for a session whose key
\* holds no state, reverify included, returns what initialize_session returns
\* and leaves the new state at verification_count 0
C30_CountersAgreeWithHistory ==
    /\ [](\A key \in DOMAIN states : CountersAgree(states[key]))
    /\ [][\A p \in SessionIds :
            (ActsOnPair(p) /\ SessionKey(p[1], p[2]) \notin DOMAIN states) =>
                /\ accessRet'.op = "initialize_session"
                /\ states'[SessionKey(p[1], p[2])].verification_count = 0
                /\ states'[SessionKey(p[1], p[2])].escalation_count = 0
                /\ states'[SessionKey(p[1], p[2])].trust_history
                       = <<Scale - accessRet'.risk_level>>]_vars

\* a session verified twice after its start, once with an escalation
C30_Witness ==
    \E key \in DOMAIN states :
        /\ states[key].verification_count = 2
        /\ states[key].escalation_count = 1
        /\ Len(states[key].trust_history) = 3

=============================================================================
